---------------------------- MODULE Spec2Model ----------------------------
(***************************************************************************)
(* rootsearch: node deduplication, graph construction and leverage         *)
(* scoring (src/src/rootsearch/{graph,analysis}).                          *)
(*                                                                         *)
(* Python floats are modelled as exact rationals [n, d] in lowest terms;   *)
(* field tags are sequences of one-character strings so that               *)
(* f.split(".")[0] is computed rather than assumed.                        *)
(***************************************************************************)
EXTENDS Integers, Sequences, FiniteSets, TLC

VARIABLES
    nodesIn,     \* build_graph: the `nodes` argument (list of Node)
    edgesIn,     \* build_graph: the `edges` argument (list of Edge)
    G,           \* the nx.DiGraph (built by build_graph / given to the scorers)
    weights,     \* compute_leverage_index: the `weights` argument
    op,          \* name of the last operation that ran ("init" before any)
    out,         \* what that operation returned (or that it raised)
    scoresIn,    \* _normalize: the `scores` argument
    sim,         \* find_duplicate_clusters: the cosine-similarity matrix
    threshold,   \* find_duplicate_clusters: the `threshold` argument
    cluster,     \* simple_merge / llm_disambiguate_cluster: nodes_in_cluster
    reply,       \* llm_disambiguate_cluster: what the oracle call produced
    params,      \* compute_cascade_scores: max_iterations, damping, tolerance
    loop,        \* compute_cascade_scores: its locals importance, scores,
                 \* delta, and iteration (the passes of the loop completed)
    prev,        \* what an earlier call of compute_cascade_scores returned
    lines,       \* the lines of a nodes file / the raw records of an extraction
    edgeLines,   \* the lines of an edges file
    bfs,         \* compute_cross_field_leverage: start, queue, visited and
                 \* reachable_domains of the traversal from one origin
    use_llm      \* dedup_nodes: the `use_llm` argument

vars == <<nodesIn, edgesIn, G, weights, op, out, scoresIn, sim, threshold,
          cluster, reply, params, loop, prev, lines, edgeLines,
                bfs, use_llm>>

-----------------------------------------------------------------------------
(* Bounds of the model *)

\* edges of a graph given to the scorers
MaxEdges == 2

\* length of the node list / edge list given to build_graph
MaxBuildNodes == 2

MaxBuildEdges == 3

-----------------------------------------------------------------------------
(* Exact rational arithmetic standing for float arithmetic *)

Abs(x) == IF x < 0 THEN -x ELSE x

RECURSIVE GCD(_, _)
GCD(a, b) == IF b = 0 THEN a ELSE GCD(b, a % b)

Norm(n, d) ==
    LET g == GCD(Abs(n), d)
    IN  [n |-> n \div g, d |-> d \div g]

Zero == [n |-> 0, d |-> 1]

One == [n |-> 1, d |-> 1]

RAdd(a, b) ==
    LET g == GCD(a.d, b.d)
    IN  Norm(a.n * (b.d \div g) + b.n * (a.d \div g), (a.d \div g) * b.d)

RNeg(a) == [n |-> 0 - a.n, d |-> a.d]

RSub(a, b) == RAdd(a, RNeg(b))

RMul(a, b) ==
    LET g1 == GCD(Abs(a.n), b.d)
        g2 == GCD(Abs(b.n), a.d)
    IN  [n |-> (a.n \div g1) * (b.n \div g2), d |-> (a.d \div g2) * (b.d \div g1)]

\* what a ZeroDivisionError leaves in place of a value
DivByZero == [n |-> 0, d |-> 0]

\* a / b
RDiv(a, b) ==
    IF b.n = 0 THEN DivByZero
    ELSE IF b.n > 0 THEN RMul(a, [n |-> b.d, d |-> b.n])
    ELSE RMul(a, [n |-> 0 - b.d, d |-> 0 - b.n])

RLess(a, b) ==
    LET g == GCD(a.d, b.d)
    IN  a.n * (b.d \div g) < b.n * (a.d \div g)

RLeq(a, b) == ~RLess(b, a)

RAbs(a) == [n |-> Abs(a.n), d |-> a.d]

RMax(a, b) == IF RLess(a, b) THEN b ELSE a

RMin(a, b) == IF RLess(b, a) THEN b ELSE a

\* max(...) / min(...) over the values of a nonempty sequence
RECURSIVE RMaxSeq(_)
RMaxSeq(s) == IF Len(s) = 1 THEN s[1] ELSE RMax(s[1], RMaxSeq(Tail(s)))

RECURSIVE RMinSeq(_)
RMinSeq(s) == IF Len(s) = 1 THEN s[1] ELSE RMin(s[1], RMinSeq(Tail(s)))

\* sum(...) over a sequence; sum of nothing is 0
RECURSIVE RSumSeq(_)
RSumSeq(s) == IF s = << >> THEN Zero ELSE RAdd(s[1], RSumSeq(Tail(s)))

-----------------------------------------------------------------------------
(* Sequences *)

Range(s) == {s[i] : i \in DOMAIN s}

Contains(s, x) == \E i \in DOMAIN s : s[i] = x

\* position of the first occurrence of x in s (x occurs in s)
IndexOf(s, x) == CHOOSE i \in DOMAIN s : s[i] = x /\ \A j \in 1..(i - 1) : s[j] # x

SeqsUpTo(S, k) == UNION {[1..m -> S] : m \in 0..k}

-----------------------------------------------------------------------------
(* Field tags:  f.split(".")[0] *)

RECURSIVE SplitHead(_)
SplitHead(f) ==
    IF f = << >> \/ f[1] = "." THEN << >> ELSE <<f[1]>> \o SplitHead(Tail(f))

\* {f.split(".")[0] for f in fields}
DomainsOf(fields) == {SplitHead(fields[i]) : i \in DOMAIN fields}

TagX1 == <<"x", ".", "1">>

TagX2 == <<"x", ".", "2">>

TagY1 == <<"y", ".", "1">>

-----------------------------------------------------------------------------
(* models.py: Node and Edge as far as the core reads them *)

MkNode(id, title, fields, confidence, sources) ==
    [node_id |-> id, title |-> title, fields |-> fields,
     confidence |-> confidence, sources |-> sources,
     parent_id |-> "None", children_ids |-> << >>]

MkEdge(eid, type, src, tgt, strength, confidence) ==
    [edge_id |-> eid, type |-> type, source_node_id |-> src,
     target_node_id |-> tgt, strength |-> strength, confidence |-> confidence]

-----------------------------------------------------------------------------
(* nx.DiGraph as build_graph fills it: nodes in insertion order, one        *)
(* attribute record per node, edges in insertion order, one per (u, v)      *)

EmptyGraph == [nodes |-> << >>, attrs |-> << >>, edges |-> << >>]

HasNode(g, id) == Contains(g.nodes, id)

HasEdge(g, u, v) == \E i \in DOMAIN g.edges : g.edges[i].u = u /\ g.edges[i].v = v

NodeAttrs(g, id) == g.attrs[IndexOf(g.nodes, id)]

\* G.add_node(node.node_id, title=..., fields=..., confidence=...)
AddNode(g, node) ==
    LET a == [title |-> node.title, fields |-> node.fields,
              confidence |-> node.confidence]
    IN  IF HasNode(g, node.node_id)
        THEN [g EXCEPT !.attrs[IndexOf(g.nodes, node.node_id)] = a]
        ELSE [g EXCEPT !.nodes = Append(@, node.node_id), !.attrs = Append(@, a)]

\* G.add_edge(u, v, edge_id=..., type=..., strength=..., confidence=...)
AddEdge(g, edge) ==
    LET e == [u |-> edge.source_node_id, v |-> edge.target_node_id,
              edge_id |-> edge.edge_id, type |-> edge.type,
              strength |-> edge.strength, confidence |-> edge.confidence]
    IN  IF HasEdge(g, e.u, e.v)
        THEN [g EXCEPT !.edges =
                 [i \in DOMAIN @ |-> IF @[i].u = e.u /\ @[i].v = e.v THEN e ELSE @[i]]]
        ELSE [g EXCEPT !.edges = Append(@, e)]

RECURSIVE AddNodes(_, _)
AddNodes(g, nodes) ==
    IF nodes = << >> THEN g ELSE AddNodes(AddNode(g, Head(nodes)), Tail(nodes))

\* mutant: the self-loop test is missing
RECURSIVE AddEdgesKeepLoops(_, _)
AddEdgesKeepLoops(g, edges) ==
    IF edges = << >> THEN g
    ELSE LET e == Head(edges)
         IN  IF ~HasNode(g, e.source_node_id) \/ ~HasNode(g, e.target_node_id)
             THEN AddEdgesKeepLoops(g, Tail(edges))
             ELSE AddEdgesKeepLoops(AddEdge(g, e), Tail(edges))

\* mutant: an edge to an unknown node is added (add_edge creates the node)
RECURSIVE AddEdgesUnchecked(_, _)
AddEdgesUnchecked(g, edges) ==
    IF edges = << >> THEN g
    ELSE LET e == Head(edges)
             g1 == IF HasNode(g, e.source_node_id) THEN g
                   ELSE AddNode(g, MkNode(e.source_node_id, << >>, << >>, One, << >>))
             g2 == IF HasNode(g1, e.target_node_id) THEN g1
                   ELSE AddNode(g1, MkNode(e.target_node_id, << >>, << >>, One, << >>))
         IN  IF e.source_node_id = e.target_node_id
             THEN AddEdgesUnchecked(g, Tail(edges))
             ELSE AddEdgesUnchecked(AddEdge(g2, e), Tail(edges))

\* the loop `for edge in edges` of build_graph
RECURSIVE AddEdges(_, _)
AddEdges(g, edges) ==
    IF edges = << >> THEN g
    ELSE LET e == Head(edges)
         IN  IF ~HasNode(g, e.source_node_id) \/ ~HasNode(g, e.target_node_id)
             THEN AddEdges(g, Tail(edges))
             ELSE IF e.source_node_id = e.target_node_id
             THEN AddEdges(g, Tail(edges))
             ELSE AddEdges(AddEdge(g, e), Tail(edges))

build_graph(nodes, edges) == AddEdges(AddNodes(EmptyGraph, nodes), edges)

-----------------------------------------------------------------------------
(* analysis/scoring.py: helpers *)

SubgraphTypes == {"ENABLES", "PRODUCES_FOR"}

KeepEdge(e) == e.type \in SubgraphTypes

\* a new DiGraph with the nodes of G and its ENABLES / PRODUCES_FOR edges
_enables_subgraph(g) ==
    [nodes |-> g.nodes, attrs |-> g.attrs, edges |-> SelectSeq(g.edges, KeepEdge)]

\* sub.out_edges(node, data=True), in adjacency order
OutEdges(sub, node) == SelectSeq(sub.edges, LAMBDA e : e.u = node)

NodeSet(g) == Range(g.nodes)

RMinSet(S) == CHOOSE x \in S : \A y \in S : RLeq(x, y)

RMaxSet(S) == CHOOSE x \in S : \A y \in S : RLeq(y, x)

Values(f) == {f[k] : k \in DOMAIN f}

\* mutant: the hi == lo test is missing
NormalizeNoGuard(scores) ==
    IF DOMAIN scores = {} THEN scores
    ELSE LET lo == RMinSet(Values(scores))
             hi == RMaxSet(Values(scores))
         IN  [k \in DOMAIN scores |-> RDiv(RSub(scores[k], lo), RSub(hi, lo))]

_normalize(scores) ==
    IF DOMAIN scores = {} THEN scores
    ELSE LET lo == RMinSet(Values(scores))
             hi == RMaxSet(Values(scores))
         IN  IF hi = lo THEN [k \in DOMAIN scores |-> Zero]
             ELSE [k \in DOMAIN scores |-> RDiv(RSub(scores[k], lo), RSub(hi, lo))]

-----------------------------------------------------------------------------
(* compute_cascade_scores *)

DefaultMaxIterations == 100

DefaultDamping == [n |-> 17, d |-> 20]

DefaultTolerance == [n |-> 1, d |-> 1000000]

Raised(err) == [status |-> "raised", error |-> err]

\* mutant: a node's raw score is driven by what enables it (incoming edges)
RawScoreIncoming(sub, importance, node) ==
    LET inbound == SelectSeq(sub.edges, LAMBDA e : e.v = node)
    IN  RSumSeq([i \in DOMAIN inbound |->
                    RMul(RMul(inbound[i].strength, inbound[i].confidence),
                         importance[inbound[i].u])])

\* sum(strength * confidence * importance[target] for _, target, d in outbound)
RawScore(sub, importance, node) ==
    LET outbound == OutEdges(sub, node)
    IN  RSumSeq([i \in DOMAIN outbound |->
                    RMul(RMul(outbound[i].strength, outbound[i].confidence),
                         importance[outbound[i].v])])

\* one pass of `for iteration in range(max_iterations)` and what follows it
RECURSIVE CascadeLoop(_, _, _, _, _, _, _)
CascadeLoop(sub, importance, scores, iteration, max_iterations, damping, tolerance) ==
    IF iteration >= max_iterations
    THEN [status |-> "ok", scores |-> scores, rounds |-> iteration, converged |-> FALSE]
    ELSE LET nodes == NodeSet(sub)
             new_scores == [n \in nodes |-> RawScore(sub, importance, n)]
             new_importance == [n \in nodes |-> RAdd(One, RMul(damping, new_scores[n]))]
         IN  IF nodes = {}
             THEN Raised("ValueError")    \* max() of an empty sequence
             ELSE LET delta == RMaxSet({RAbs(RSub(new_scores[n], scores[n])) : n \in nodes})
                  IN  IF RLess(delta, tolerance)
                      THEN [status |-> "ok", scores |-> new_scores,
                            rounds |-> iteration + 1, converged |-> TRUE]
                      ELSE CascadeLoop(sub, new_importance, new_scores, iteration + 1,
                                       max_iterations, damping, tolerance)

compute_cascade_scores(g, max_iterations, damping, tolerance) ==
    LET sub == _enables_subgraph(g)
    IN  CascadeLoop(sub, [n \in NodeSet(sub) |-> One], [n \in NodeSet(sub) |-> Zero],
                    0, max_iterations, damping, tolerance)

-----------------------------------------------------------------------------
(* compute_cross_field_leverage *)

\* mutant: the test `domain not in start_domains` is missing
RECURSIVE RecordDomainsUnfiltered(_, _, _, _)
RecordDomainsUnfiltered(reach, fields, start_domains, edge_weight) ==
    IF fields = << >> THEN reach
    ELSE LET domain == SplitHead(Head(fields))
             reach2 == IF domain \in DOMAIN reach
                       THEN [reach EXCEPT ![domain] = RMax(@, edge_weight)]
                       ELSE (domain :> RMax(Zero, edge_weight)) @@ reach
         IN  RecordDomainsUnfiltered(reach2, Tail(fields), start_domains, edge_weight)

\* reachable_domains[domain] = max(reachable_domains.get(domain, 0.0), edge_weight)
\* for every field of the neighbor whose domain is not in start_domains
RECURSIVE RecordDomains(_, _, _, _)
RecordDomains(reach, fields, start_domains, edge_weight) ==
    IF fields = << >> THEN reach
    ELSE LET domain == SplitHead(Head(fields))
             reach2 == IF domain \in start_domains THEN reach
                       ELSE IF domain \in DOMAIN reach
                       THEN [reach EXCEPT ![domain] = RMax(@, edge_weight)]
                       ELSE (domain :> RMax(Zero, edge_weight)) @@ reach
         IN  RecordDomains(reach2, Tail(fields), start_domains, edge_weight)

\* mutant: an edge to a visited neighbor still records its weight (a revisit
\* with a better weight)
RECURSIVE ScanOutEdgesRevisiting(_, _, _, _, _)
ScanOutEdgesRevisiting(sub, edges, weight, start_domains, st) ==
    IF edges = << >> THEN st
    ELSE LET e == Head(edges)
             edge_weight == RMul(RMul(weight, e.strength), e.confidence)
             reach2 == RecordDomains(st.reach, NodeAttrs(sub, e.v).fields,
                                     start_domains, edge_weight)
         IN  IF e.v \in st.visited
             THEN ScanOutEdgesRevisiting(sub, Tail(edges), weight, start_domains,
                         [st EXCEPT !.reach = reach2])
             ELSE ScanOutEdgesRevisiting(sub, Tail(edges), weight, start_domains,
                         [visited |-> st.visited \cup {e.v},
                          reach |-> reach2,
                          queue |-> Append(st.queue, <<e.v, edge_weight>>)])

\* the loop over sub.out_edges(node) for one dequeued (node, weight);
\* st = [visited, reach, queue]
RECURSIVE ScanOutEdges(_, _, _, _, _)
ScanOutEdges(sub, edges, weight, start_domains, st) ==
    IF edges = << >> THEN st
    ELSE LET e == Head(edges)
         IN  IF e.v \in st.visited
             THEN ScanOutEdges(sub, Tail(edges), weight, start_domains, st)
             ELSE LET edge_weight == RMul(RMul(weight, e.strength), e.confidence)
                  IN  ScanOutEdges(sub, Tail(edges), weight, start_domains,
                         [visited |-> st.visited \cup {e.v},
                          reach |-> RecordDomains(st.reach, NodeAttrs(sub, e.v).fields,
                                                  start_domains, edge_weight),
                          queue |-> Append(st.queue, <<e.v, edge_weight>>)])

\* while queue: node, weight = queue.pop(0); ...
RECURSIVE BFS(_, _, _)
BFS(sub, start_domains, st) ==
    IF st.queue = << >> THEN st
    ELSE LET node == Head(st.queue)[1]
             weight == Head(st.queue)[2]
         IN  BFS(sub, start_domains,
                 ScanOutEdges(sub, OutEdges(sub, node), weight, start_domains,
                              [st EXCEPT !.queue = Tail(@)]))

RECURSIVE SumValues(_)
SumValues(f) ==
    IF DOMAIN f = {} THEN Zero
    ELSE LET k == CHOOSE x \in DOMAIN f : TRUE
         IN  RAdd(f[k], SumValues([x \in DOMAIN f \ {k} |-> f[x]]))

\* mutant: domains the origin itself carries are counted too
CrossFieldCountingOwn(sub, start) ==
    LET st == BFS(sub, {},
                  [visited |-> {start}, reach |-> << >>, queue |-> <<<<start, One>>>>])
    IN  SumValues(st.reach)

\* the body of `for start in sub.nodes()`
CrossFieldFrom(sub, start) ==
    LET start_domains == DomainsOf(NodeAttrs(sub, start).fields)
        st == BFS(sub, start_domains,
                  [visited |-> {start}, reach |-> << >>, queue |-> <<<<start, One>>>>])
    IN  SumValues(st.reach)

compute_cross_field_leverage(g) ==
    LET sub == _enables_subgraph(g)
    IN  [status |-> "ok", scores |-> [n \in NodeSet(sub) |-> CrossFieldFrom(sub, n)]]

-----------------------------------------------------------------------------
(* compute_bottleneck_centrality *)

Epsilon == [n |-> 1, d |-> 1000000]

\* sub[u][v]["btwn_weight"] = 1.0 / max(strength * confidence, 1e-6)
BtwnWeight(e) == RDiv(One, RMax(RMul(e.strength, e.confidence), Epsilon))

\* the simple paths of sub from cur to t that avoid `seen`, each with the
\* sum of its btwn_weight
RECURSIVE SimplePaths(_, _, _, _)
SimplePaths(sub, cur, t, seen) ==
    IF cur = t THEN {[nodes |-> <<t>>, cost |-> Zero]}
    ELSE UNION {{[nodes |-> <<cur>> \o p.nodes, cost |-> RAdd(BtwnWeight(e), p.cost)] :
                    p \in SimplePaths(sub, e.v, t, seen \cup {e.v})} :
                e \in {x \in Range(sub.edges) : x.u = cur /\ x.v \notin seen}}

ShortestPaths(sub, s, t) ==
    LET all == SimplePaths(sub, s, t, {s})
    IN  {p \in all : \A q \in all : RLeq(p.cost, q.cost)}

\* nx.betweenness_centrality(sub, weight="btwn_weight", normalized=True):
\* sum over s # v # t of (shortest s-t paths through v) / (shortest s-t paths),
\* scaled by 1 / ((n - 1)(n - 2)) when n > 2
Betweenness(sub, v) ==
    LET others == NodeSet(sub) \ {v}
        pairs == {st \in others \X others :
                     st[1] # st[2] /\ ShortestPaths(sub, st[1], st[2]) # {}}
        frac(st) == LET sp == ShortestPaths(sub, st[1], st[2])
                    IN  Norm(Cardinality({p \in sp : Contains(p.nodes, v)}),
                             Cardinality(sp))
        total == SumValues([st \in pairs |-> frac(st)])
        n == Len(sub.nodes)
    IN  IF n <= 2 THEN total ELSE RDiv(total, [n |-> (n - 1) * (n - 2), d |-> 1])

compute_bottleneck_centrality(g) ==
    LET sub == _enables_subgraph(g)
    IN  IF Len(sub.edges) = 0
        THEN [status |-> "ok", scores |-> [n \in NodeSet(sub) |-> Zero]]
        ELSE [status |-> "ok", scores |-> [n \in NodeSet(sub) |-> Betweenness(sub, n)]]

-----------------------------------------------------------------------------
(* compute_leverage_index *)

DefaultWeights ==
    [cascade |-> [n |-> 9, d |-> 20], cross_field |-> [n |-> 3, d |-> 10],
     bottleneck |-> [n |-> 1, d |-> 4]]

\* mutant: the cascade and bottleneck weights are applied to each other's metric
CompositeSwapped(w, c, cf, bt) ==
    RAdd(RAdd(RMul(w.bottleneck, c), RMul(w.cross_field, cf)), RMul(w.cascade, bt))

\* w["cascade"] * c + w["cross_field"] * cf + w["bottleneck"] * bt
Composite(w, c, cf, bt) ==
    RAdd(RAdd(RMul(w.cascade, c), RMul(w.cross_field, cf)), RMul(w.bottleneck, bt))

\* mutant: an entry goes before the entries of equal score
InsertDescBeforeEqual(sorted, x) ==
    LET k == Cardinality({i \in DOMAIN sorted : RLess(x.score, sorted[i].score)})
    IN  SubSeq(sorted, 1, k) \o <<x>> \o SubSeq(sorted, k + 1, Len(sorted))

\* results.sort(key=lambda x: -x[1]): stable, highest score first
InsertDesc(sorted, x) ==
    LET k == Cardinality({i \in DOMAIN sorted : RLeq(x.score, sorted[i].score)})
    IN  SubSeq(sorted, 1, k) \o <<x>> \o SubSeq(sorted, k + 1, Len(sorted))

RECURSIVE SortDesc(_)
SortDesc(s) ==
    IF s = << >> THEN << >>
    ELSE InsertDesc(SortDesc(SubSeq(s, 1, Len(s) - 1)), s[Len(s)])

\* the `weights` argument left at None
NoWeights == [given |-> FALSE, cascade |-> Zero, cross_field |-> Zero, bottleneck |-> Zero]

compute_leverage_index(g, wts) ==
    LET w == IF ~wts.given THEN DefaultWeights ELSE wts    \* weights or {...}
        cascade == compute_cascade_scores(g, DefaultMaxIterations, DefaultDamping,
                                          DefaultTolerance)
    IN  IF cascade.status = "raised" THEN cascade
        ELSE LET cross_field == compute_cross_field_leverage(g)
                 bottleneck == compute_bottleneck_centrality(g)
                 cascade_n == _normalize(cascade.scores)
                 cross_field_n == _normalize(cross_field.scores)
                 bottleneck_n == _normalize(bottleneck.scores)
                 results ==
                     [i \in DOMAIN g.nodes |->
                         LET node_id == g.nodes[i]
                             c == cascade_n[node_id]
                             cf == cross_field_n[node_id]
                             bt == bottleneck_n[node_id]
                         IN  [node_id |-> node_id,
                              score |-> Composite(w, c, cf, bt),
                              components |-> [cascade |-> c, cross_field |-> cf,
                                              bottleneck |-> bt]]]
             IN  [status |-> "ok", ranking |-> SortDesc(results)]

-----------------------------------------------------------------------------
(* Inputs of the scoring specification *)

\* the node ids graphs are drawn over
NodeIds == <<"A", "B", "C">>

Half == [n |-> 1, d |-> 2]

FourFifths == [n |-> 4, d |-> 5]

DefaultConfidence == [n |-> 7, d |-> 10]

FieldChoices == {<<TagX1>>, <<TagY1>>}

\* (type, strength, confidence) of a graph edge
EdgeAttrs ==
    {[type |-> "ENABLES", strength |-> One, confidence |-> One],
     [type |-> "ENABLES", strength |-> Half, confidence |-> FourFifths],
     [type |-> "OTHER", strength |-> One, confidence |-> One]}

PairKey(p) == IndexOf(NodeIds, p[1]) * (Len(NodeIds) + 1) + IndexOf(NodeIds, p[2])

\* the pairs of S as a sequence, by increasing key
RECURSIVE SortPairs(_)
SortPairs(S) ==
    IF S = {} THEN << >>
    ELSE LET p == CHOOSE x \in S : \A y \in S : PairKey(x) <= PairKey(y)
         IN  <<p>> \o SortPairs(S \ {p})

Reverse(s) == [i \in DOMAIN s |-> s[Len(s) + 1 - i]]

\* the Edge list that adds the pairs of S, each with attributes at[p]
EdgeList(S, at, rev) ==
    LET ps == IF rev THEN Reverse(SortPairs(S)) ELSE SortPairs(S)
    IN  [i \in DOMAIN ps |->
            MkEdge(i, at[ps[i]].type, ps[i][1], ps[i][2],
                   at[ps[i]].strength, at[ps[i]].confidence)]

NodeList(n, fs) ==
    [i \in 1..n |-> MkNode(NodeIds[i], <<NodeIds[i]>>, fs[i], DefaultConfidence, << >>)]

\* no directed cycle among the edges es (a sequence of graph edges)
RECURSIVE ReachableFrom(_, _)
ReachableFrom(es, S) ==
    LET next == S \cup {e.v : e \in {x \in Range(es) : x.u \in S}}
    IN  IF next = S THEN S ELSE ReachableFrom(es, next)

Acyclic(g) ==
    \A e \in Range(g.edges) : e.u \notin ReachableFrom(g.edges, {e.v})

\* weights=None, weights summing to 1.0, weights summing to 1.5
WeightChoices ==
    {NoWeights,
     [given |-> TRUE, cascade |-> One, cross_field |-> Zero, bottleneck |-> Zero],
     [given |-> TRUE, cascade |-> Half, cross_field |-> Half, bottleneck |-> Half]}

Idle == "idle"

\* no call of compute_cascade_scores is followed step by step
NoCascadeCall ==
    /\ params = Idle /\ loop = Idle /\ prev = Idle

\* no file is read
NoFiles == lines = Idle /\ edgeLines = Idle

InitScore ==
    /\ \E n \in 0..Len(NodeIds) :
         \E fs \in [1..n -> FieldChoices] :
           \E S \in SUBSET {p \in Range(SubSeq(NodeIds, 1, n)) \X Range(SubSeq(NodeIds, 1, n)) :
                               p[1] # p[2]} :
             /\ Cardinality(S) <= MaxEdges
             /\ \E at \in [S -> EdgeAttrs] :
                  \E rev \in {b \in BOOLEAN : b => \E p, q \in S : p # q /\ p[1] = q[1]} :
                    /\ G = build_graph(NodeList(n, fs), EdgeList(S, at, rev))
                    /\ Acyclic(_enables_subgraph(G))
    /\ nodesIn = Idle /\ edgesIn = Idle
    /\ weights = Idle /\ op = "init" /\ out = Idle
    /\ scoresIn = Idle /\ sim = Idle /\ threshold = Idle
    /\ cluster = Idle /\ reply = Idle
    /\ bfs = Idle /\ use_llm = Idle
    /\ NoCascadeCall
    /\ NoFiles

\* what no operation of the core assigns: its own arguments (and the locals
\* of a call that is not running)
UnchangedInputs ==
    UNCHANGED <<nodesIn, edgesIn, scoresIn, sim, threshold, cluster, reply,
                params, loop, prev, lines, edgeLines,
                bfs, use_llm>>

Cascade ==
    /\ op = "init"
    /\ op' = "compute_cascade_scores"
    /\ out' = compute_cascade_scores(G, DefaultMaxIterations, DefaultDamping,
                                     DefaultTolerance)
    /\ UNCHANGED <<G, weights>>
    /\ UnchangedInputs

CrossField ==
    /\ op = "init"
    /\ op' = "compute_cross_field_leverage"
    /\ out' = compute_cross_field_leverage(G)
    /\ UNCHANGED <<G, weights>>
    /\ UnchangedInputs

Bottleneck ==
    /\ op = "init"
    /\ op' = "compute_bottleneck_centrality"
    /\ out' = compute_bottleneck_centrality(G)
    /\ UNCHANGED <<G, weights>>
    /\ UnchangedInputs

LeverageIndex ==
    /\ op = "init"
    /\ \E w \in WeightChoices :
         /\ weights' = w
         /\ out' = compute_leverage_index(G, w)
    /\ op' = "compute_leverage_index"
    /\ UNCHANGED G
    /\ UnchangedInputs

NextScore == Cascade \/ CrossField \/ Bottleneck \/ LeverageIndex

SpecScore == InitScore /\ [][NextScore]_vars

-----------------------------------------------------------------------------
(* The scorers called one after another on the same graph object.  A frame  *)
(* holds the two graphs a scorer works with: G, the caller's, and sub, the  *)
(* nx.DiGraph that _enables_subgraph built with attribute dicts of its own  *)

\* scorer calls in a row
MaxScorerRuns == 2

\* edges of the graph the scorers are called on
MaxScorerEdges == 1

\* sub = _enables_subgraph(G)
Frame(g) == [G |-> g, sub |-> _enables_subgraph(g)]

\* the edges of g, each with its btwn_weight set
WithBtwnWeight(g) ==
    [g EXCEPT !.edges = [i \in DOMAIN g.edges |->
                            [btwn_weight |-> BtwnWeight(g.edges[i])] @@ g.edges[i]]]

\* mutant: the attribute dicts of sub are those of G (a view of G)
SetBtwnWeightShared(fr) ==
    [G |-> [fr.G EXCEPT !.edges =
               [i \in DOMAIN fr.G.edges |->
                   IF KeepEdge(fr.G.edges[i])
                   THEN [btwn_weight |-> BtwnWeight(fr.G.edges[i])] @@ fr.G.edges[i]
                   ELSE fr.G.edges[i]]],
     sub |-> WithBtwnWeight(fr.sub)]

\* for u, v, d in sub.edges(data=True): sub[u][v]["btwn_weight"] = ...
SetBtwnWeight(fr) == [fr EXCEPT !.sub = WithBtwnWeight(fr.sub)]

\* the frame of compute_bottleneck_centrality when it returns
BottleneckFrame(g) ==
    IF Len(Frame(g).sub.edges) = 0 THEN Frame(g) ELSE SetBtwnWeight(Frame(g))

\* the caller's graph when the scorer has returned; compute_leverage_index
\* calls the three others in turn on the same G
GraphAfter(scorer, g) ==
    CASE scorer = "compute_bottleneck_centrality" -> BottleneckFrame(g).G
      [] scorer = "compute_leverage_index" ->
            BottleneckFrame(Frame(Frame(g).G).G).G
      [] OTHER -> Frame(g).G

ResultOf(scorer, g) ==
    CASE scorer = "compute_cascade_scores" ->
            compute_cascade_scores(g, DefaultMaxIterations, DefaultDamping,
                                   DefaultTolerance)
      [] scorer = "compute_cross_field_leverage" -> compute_cross_field_leverage(g)
      [] scorer = "compute_bottleneck_centrality" -> compute_bottleneck_centrality(g)
      [] OTHER -> compute_leverage_index(g, NoWeights)

\* nodesIn and edgesIn keep what G was built from; prev lists the scorers
\* that have run
InitScorers ==
    /\ \E n \in 0..Len(NodeIds) :
         \E fs \in [1..n -> FieldChoices] :
           \E S \in SUBSET {p \in Range(SubSeq(NodeIds, 1, n)) \X Range(SubSeq(NodeIds, 1, n)) :
                               p[1] # p[2]} :
             /\ Cardinality(S) <= MaxScorerEdges
             /\ \E at \in [S -> EdgeAttrs] :
                  /\ nodesIn = NodeList(n, fs)
                  /\ edgesIn = EdgeList(S, at, FALSE)
    /\ G = build_graph(nodesIn, edgesIn)
    /\ Acyclic(_enables_subgraph(G))
    /\ prev = << >>
    /\ weights = NoWeights /\ op = "init" /\ out = Idle
    /\ scoresIn = Idle /\ sim = Idle /\ threshold = Idle
    /\ cluster = Idle /\ reply = Idle
    /\ bfs = Idle /\ use_llm = Idle
    /\ params = Idle /\ loop = Idle
    /\ NoFiles

RunScorer(scorer) ==
    /\ Len(prev) < MaxScorerRuns
    /\ out' = ResultOf(scorer, G)
    /\ G' = GraphAfter(scorer, G)
    /\ op' = scorer
    /\ prev' = Append(prev, scorer)
    /\ UNCHANGED <<nodesIn, edgesIn, weights, scoresIn, sim, threshold, cluster,
                   reply, params, loop, lines, edgeLines, bfs, use_llm>>

RunCascade == RunScorer("compute_cascade_scores")

RunCrossField == RunScorer("compute_cross_field_leverage")

RunBottleneck == RunScorer("compute_bottleneck_centrality")

RunLeverageIndex == RunScorer("compute_leverage_index")

NextScorers == RunCascade \/ RunCrossField \/ RunBottleneck \/ RunLeverageIndex

SpecScorers == InitScorers /\ [][NextScorers]_vars

-----------------------------------------------------------------------------
(* compute_cascade_scores pass by pass, on any graph, cycles included, and  *)
(* called twice on the same graph with the same parameters                  *)

\* largest max_iterations
MaxRounds == 3

\* edges of a graph given to compute_cascade_scores
MaxCascadeEdges == 2

\* mutant: a call starts from the importance an earlier call ended with
KeptImportance(nodes, left) ==
    IF nodes # {} /\ DOMAIN left = nodes THEN left ELSE [n \in nodes |-> One]

\* importance = {n: 1.0 for n in nodes}: a new dict in every call, whatever
\* an earlier call left behind
NewImportance(nodes, left) == [n \in nodes |-> One]

\* mutant: the importance of a node is updated as soon as its raw score is
\* known, so later nodes of the same pass read it
RoundScoresInPlace(sub, imp) ==
    LET after[k \in 0..Len(sub.nodes)] ==
            IF k = 0 THEN [imp |-> imp, acc |-> << >>]
            ELSE LET n == sub.nodes[k]
                     r == RawScore(sub, after[k - 1].imp, n)
                 IN  [imp |-> [after[k - 1].imp EXCEPT
                                  ![n] = RAdd(One, RMul(DefaultDamping, r))],
                      acc |-> (n :> r) @@ after[k - 1].acc]
    IN  after[Len(sub.nodes)].acc

\* new_scores of one pass: every node from the importance of the pass before
RoundScores(sub, imp) == [n \in NodeSet(sub) |-> RawScore(sub, imp, n)]

\* importance = {n: 1.0 + damping * new_scores[n] for n in nodes}
NextImportance(damping, new_scores) ==
    [n \in DOMAIN new_scores |-> RAdd(One, RMul(damping, new_scores[n]))]

\* mutant: new_scores is compared with zeros (`scores = new_scores` is missing)
MaxDeltaFromZero(new_scores, old_scores) ==
    RMaxSet({RAbs(new_scores[n]) : n \in DOMAIN new_scores})

\* delta = max(abs(new_scores[n] - scores[n]) for n in nodes)
MaxDelta(new_scores, old_scores) ==
    RMaxSet({RAbs(RSub(new_scores[n], old_scores[n])) : n \in DOMAIN new_scores})

\* mutant: the loop never breaks
NeverBreaks(lp, tolerance) == FALSE

\* `if delta < tolerance: break` at the end of a pass
Breaks(lp, tolerance) == lp.iteration > 0 /\ RLess(lp.delta, tolerance)

\* the locals before any call
NoLocals == [importance |-> << >>, scores |-> << >>, iteration |-> 0, delta |-> Zero]

NoEarlierCall == [status |-> "none"]

OneTenth == [n |-> 1, d |-> 10]

ParamChoices ==
    [max_iterations : 0..MaxRounds,
     damping : {DefaultDamping, Half},
     tolerance : {DefaultTolerance, OneTenth}]

InitCascade ==
    /\ \E n \in 0..Len(NodeIds) :
         \E S \in SUBSET {p \in Range(SubSeq(NodeIds, 1, n)) \X Range(SubSeq(NodeIds, 1, n)) :
                             p[1] # p[2]} :
           /\ Cardinality(S) <= MaxCascadeEdges
           /\ \E at \in [S -> EdgeAttrs] :
                G = build_graph(NodeList(n, [i \in 1..n |-> <<TagX1>>]),
                                EdgeList(S, at, FALSE))
    /\ params \in ParamChoices
    /\ loop = NoLocals
    /\ prev = NoEarlierCall
    /\ NoFiles
    /\ nodesIn = Idle /\ edgesIn = Idle
    /\ weights = Idle /\ op = "init" /\ out = Idle
    /\ scoresIn = Idle /\ sim = Idle /\ threshold = Idle
    /\ cluster = Idle /\ reply = Idle
    /\ bfs = Idle /\ use_llm = Idle

UnchangedArguments ==
    UNCHANGED <<G, params, nodesIn, edgesIn, weights, scoresIn, sim, threshold,
                cluster, reply, lines, edgeLines,
                bfs, use_llm>>

\* sub, nodes, importance, scores at the start of a call
EnterCall ==
    LET sub == _enables_subgraph(G)
    IN  /\ loop' = [importance |-> NewImportance(NodeSet(sub), loop.importance),
                    scores |-> [n \in NodeSet(sub) |-> Zero],
                    iteration |-> 0,
                    delta |-> Zero]
        /\ op' = "for_iteration"

CascadeCall ==
    /\ op = "init"
    /\ EnterCall
    /\ UNCHANGED <<out, prev>>
    /\ UnchangedArguments

\* the same call once more, after the first has returned
CascadeCallAgain ==
    /\ op = "compute_cascade_scores"
    /\ prev.status = "none"
    /\ prev' = out
    /\ EnterCall
    /\ UNCHANGED out
    /\ UnchangedArguments

\* one pass of `for iteration in range(max_iterations)`
CascadeRound ==
    /\ op = "for_iteration"
    /\ loop.iteration < params.max_iterations
    /\ ~Breaks(loop, params.tolerance)
    /\ LET sub == _enables_subgraph(G)
           new_scores == RoundScores(sub, loop.importance)
       IN  IF NodeSet(sub) = {}
           THEN /\ out' = Raised("ValueError")    \* max() of an empty sequence
                /\ op' = "compute_cascade_scores"
                /\ UNCHANGED loop
           ELSE /\ loop' = [importance |-> NextImportance(params.damping, new_scores),
                            scores |-> new_scores,
                            iteration |-> loop.iteration + 1,
                            delta |-> MaxDelta(new_scores, loop.scores)]
                /\ UNCHANGED <<op, out>>
    /\ UNCHANGED prev
    /\ UnchangedArguments

\* return scores, after the break or after the last pass
CascadeReturn ==
    /\ op = "for_iteration"
    /\ loop.iteration >= params.max_iterations \/ Breaks(loop, params.tolerance)
    /\ out' = [status |-> "ok", scores |-> loop.scores, rounds |-> loop.iteration,
               converged |-> Breaks(loop, params.tolerance)]
    /\ op' = "compute_cascade_scores"
    /\ UNCHANGED <<loop, prev>>
    /\ UnchangedArguments

NextCascade == CascadeCall \/ CascadeCallAgain \/ CascadeRound \/ CascadeReturn

SpecCascade == InitCascade /\ [][NextCascade]_vars

-----------------------------------------------------------------------------
(* Specification of compute_cross_field_leverage on any graph, cycles       *)
(* included                                                                 *)

\* edges of a graph given to compute_cross_field_leverage
MaxCrossEdges == 2

\* one tag, another tag of the same domain, a tag of another domain, both
CrossFieldChoices == {<<TagX1>>, <<TagX2>>, <<TagY1>>, <<TagX1, TagY1>>}

InitCrossField ==
    /\ \E n \in 0..Len(NodeIds) :
         \E fs \in [1..n -> CrossFieldChoices] :
           \E S \in SUBSET {p \in Range(SubSeq(NodeIds, 1, n)) \X Range(SubSeq(NodeIds, 1, n)) :
                               p[1] # p[2]} :
             /\ Cardinality(S) <= MaxCrossEdges
             /\ \E at \in [S -> EdgeAttrs] :
                  \E rev \in {b \in BOOLEAN : b => \E p, q \in S : p # q /\ p[1] = q[1]} :
                    G = build_graph(NodeList(n, fs), EdgeList(S, at, rev))
    /\ nodesIn = Idle /\ edgesIn = Idle
    /\ weights = Idle /\ op = "init" /\ out = Idle
    /\ scoresIn = Idle /\ sim = Idle /\ threshold = Idle
    /\ cluster = Idle /\ reply = Idle
    /\ bfs = Idle /\ use_llm = Idle
    /\ NoCascadeCall
    /\ NoFiles

NextCrossField == CrossField

SpecCrossField == InitCrossField /\ [][NextCrossField]_vars

-----------------------------------------------------------------------------
(* Specification of the traversal compute_cross_field_leverage makes from   *)
(* one origin, followed one dequeued node at a time                         *)

\* edges of a graph that is traversed
MaxBfsEdges == 3

\* the locals before the traversal
NoTraversal ==
    [start |-> "", start_domains |-> {}, reachable_domains |-> << >>,
     queue |-> << >>, visited |-> {}, enqueued |-> << >>]

InitBfs ==
    /\ \E n \in 0..Len(NodeIds) :
         \E fs \in [1..n -> FieldChoices] :
           \E S \in SUBSET {p \in Range(SubSeq(NodeIds, 1, n)) \X Range(SubSeq(NodeIds, 1, n)) :
                               p[1] # p[2]} :
             /\ Cardinality(S) <= MaxBfsEdges
             /\ \E at \in [S -> EdgeAttrs] :
                  \E rev \in {b \in BOOLEAN : b => \E p, q \in S : p # q /\ p[1] = q[1]} :
                    G = build_graph(NodeList(n, fs), EdgeList(S, at, rev))
    /\ bfs = NoTraversal
    /\ nodesIn = Idle /\ edgesIn = Idle
    /\ weights = Idle /\ op = "init" /\ out = Idle
    /\ scoresIn = Idle /\ sim = Idle /\ threshold = Idle
    /\ cluster = Idle /\ reply = Idle /\ use_llm = Idle
    /\ NoCascadeCall
    /\ NoFiles

UnchangedByBfs ==
    UNCHANGED <<G, nodesIn, edgesIn, weights, scoresIn, sim, threshold, cluster,
                reply, params, loop, prev, lines, edgeLines, use_llm>>

\* one pass of `for start in sub.nodes()` up to the loop: start_domains,
\* reachable_domains = {}, queue = [(start, 1.0)], visited = {start}
BfsStart ==
    /\ op = "init"
    /\ \E start \in NodeSet(_enables_subgraph(G)) :
         bfs' = [start |-> start,
                 start_domains |->
                     DomainsOf(NodeAttrs(_enables_subgraph(G), start).fields),
                 reachable_domains |-> << >>,
                 queue |-> <<<<start, One>>>>,
                 visited |-> {start},
                 enqueued |-> <<[node |-> start, weight |-> One, from |-> start]>>]
    /\ op' = "while_queue"
    /\ UNCHANGED out
    /\ UnchangedByBfs

\* one pass of `while queue`: node, weight = queue.pop(0), then the loop over
\* sub.out_edges(node); enqueued keeps every queue.append with the node that
\* was being scanned
BfsPop ==
    /\ op = "while_queue"
    /\ bfs.queue # << >>
    /\ LET sub == _enables_subgraph(G)
           node == Head(bfs.queue)[1]
           weight == Head(bfs.queue)[2]
           st == ScanOutEdges(sub, OutEdges(sub, node), weight, bfs.start_domains,
                              [visited |-> bfs.visited,
                               reach |-> bfs.reachable_domains,
                               queue |-> Tail(bfs.queue)])
           appended == SubSeq(st.queue, Len(bfs.queue), Len(st.queue))
       IN  bfs' = [bfs EXCEPT !.reachable_domains = st.reach,
                              !.queue = st.queue,
                              !.visited = st.visited,
                              !.enqueued = @ \o [i \in DOMAIN appended |->
                                                   [node |-> appended[i][1],
                                                    weight |-> appended[i][2],
                                                    from |-> node]]]
    /\ UNCHANGED <<op, out>>
    /\ UnchangedByBfs

\* scores[start] = sum(reachable_domains.values())
BfsEnd ==
    /\ op = "while_queue"
    /\ bfs.queue = << >>
    /\ out' = [status |-> "ok", start |-> bfs.start,
               score |-> SumValues(bfs.reachable_domains)]
    /\ op' = "compute_cross_field_leverage"
    /\ UNCHANGED bfs
    /\ UnchangedByBfs

NextBfs == BfsStart \/ BfsPop \/ BfsEnd

SpecBfs == InitBfs /\ [][NextBfs]_vars

-----------------------------------------------------------------------------
(* Specification of build_graph *)

\* "Z" is the id of no node
BuildNodeChoices ==
    {MkNode("A", <<"A">>, <<TagX1>>, DefaultConfidence, << >>),
     MkNode("B", <<"B">>, <<TagY1>>, DefaultConfidence, << >>)}

BuildEndpoints == {<<"A", "B">>, <<"B", "A">>, <<"A", "A">>, <<"A", "Z">>, <<"Z", "B">>}

BuildEdgeAttrs ==
    {[type |-> "ENABLES", strength |-> One, confidence |-> One],
     [type |-> "PRODUCES_FOR", strength |-> Half, confidence |-> FourFifths]}

\* the edge list e, every edge with an id of its own
WithEdgeIds(e) ==
    [i \in DOMAIN e |->
        MkEdge(i, e[i][2].type, e[i][1][1], e[i][1][2], e[i][2].strength,
               e[i][2].confidence)]

InitBuild ==
    /\ nodesIn \in SeqsUpTo(BuildNodeChoices, MaxBuildNodes)
    /\ \E e \in SeqsUpTo(BuildEndpoints \X BuildEdgeAttrs, MaxBuildEdges) :
         edgesIn = WithEdgeIds(e)
    /\ G = EmptyGraph
    /\ weights = Idle /\ op = "init" /\ out = Idle
    /\ scoresIn = Idle /\ sim = Idle /\ threshold = Idle
    /\ cluster = Idle /\ reply = Idle
    /\ bfs = Idle /\ use_llm = Idle
    /\ NoCascadeCall
    /\ NoFiles

Build ==
    /\ op = "init"
    /\ G' = build_graph(nodesIn, edgesIn)
    /\ op' = "build_graph"
    /\ out' = [status |-> "ok"]
    /\ UNCHANGED weights
    /\ UnchangedInputs

NextBuild == Build

SpecBuild == InitBuild /\ [][NextBuild]_vars

-----------------------------------------------------------------------------
(* graph/builder.py: graph_stats (the node-type histogram and the rounded   *)
(* orphan percentage are left out: the graph model keeps no node type)      *)

\* mutant: the test that both endpoints carry a domain is missing
CrossFieldTestUnguarded(u_fields, v_fields) == u_fields \cap v_fields = {}

\* u_fields and v_fields and not u_fields.intersection(v_fields)
CrossFieldTest(u_fields, v_fields) ==
    /\ u_fields # {}
    /\ v_fields # {}
    /\ u_fields \cap v_fields = {}

\* G.degree(nid): the edges in or out of nid
Degree(g, nid) ==
    Cardinality({i \in DOMAIN g.edges : g.edges[i].u = nid \/ g.edges[i].v = nid})

\* the number of positions of s that satisfy Test
CountIf(s, Test(_)) == Cardinality({i \in DOMAIN s : Test(s[i])})

graph_stats(g) ==
    [nodes |-> Len(g.nodes),
     edges |-> Len(g.edges),
     orphan_nodes |-> CountIf(g.nodes, LAMBDA nid : Degree(g, nid) = 0),
     cross_field_edges |->
         CountIf(g.edges,
                 LAMBDA ed : CrossFieldTest(DomainsOf(NodeAttrs(g, ed.u).fields),
                                            DomainsOf(NodeAttrs(g, ed.v).fields))),
     edge_types |->
         [et \in {g.edges[i].type : i \in DOMAIN g.edges} |->
             CountIf(g.edges, LAMBDA ed : ed.type = et)],
     field_distribution |->
         [domain \in UNION {DomainsOf(g.attrs[i].fields) : i \in DOMAIN g.attrs} |->
             Cardinality({p \in UNION {{<<i, k>> : k \in DOMAIN g.attrs[i].fields} :
                                          i \in DOMAIN g.attrs} :
                             SplitHead(g.attrs[p[1]].fields[p[2]]) = domain})]]

-----------------------------------------------------------------------------
(* Specification of graph_stats *)

\* edges of a graph given to graph_stats
MaxStatsEdges == 2

\* no tag (a stub node), one tag, another tag of the same domain, a tag of
\* another domain, tags of both domains
StatsFieldChoices == {<< >>, <<TagX1>>, <<TagX2>>, <<TagY1>>, <<TagX1, TagY1>>}

InitStats ==
    /\ \E n \in 0..Len(NodeIds) :
         \E fs \in [1..n -> StatsFieldChoices] :
           \E S \in SUBSET {p \in Range(SubSeq(NodeIds, 1, n)) \X Range(SubSeq(NodeIds, 1, n)) :
                               p[1] # p[2]} :
             /\ Cardinality(S) <= MaxStatsEdges
             /\ \E at \in [S -> EdgeAttrs] :
                  G = build_graph(NodeList(n, fs), EdgeList(S, at, FALSE))
    /\ nodesIn = Idle /\ edgesIn = Idle
    /\ weights = Idle /\ op = "init" /\ out = Idle
    /\ scoresIn = Idle /\ sim = Idle /\ threshold = Idle
    /\ cluster = Idle /\ reply = Idle
    /\ bfs = Idle /\ use_llm = Idle
    /\ NoCascadeCall
    /\ NoFiles

Stats ==
    /\ op = "init"
    /\ out' = graph_stats(G)
    /\ op' = "graph_stats"
    /\ UNCHANGED <<G, weights>>
    /\ UnchangedInputs

NextStats == Stats

SpecStats == InitStats /\ [][NextStats]_vars

-----------------------------------------------------------------------------
(* Specification of _normalize *)

MaxScores == 3

ScoreKeys == <<"k1", "k2", "k3", "k4">>

ScoreValues ==
    {Zero, [n |-> 2, d |-> 5], One, [n |-> 67, d |-> 50], [n |-> -1, d |-> 2]}

InitNorm ==
    /\ \E k \in 0..MaxScores : scoresIn \in [Range(SubSeq(ScoreKeys, 1, k)) -> ScoreValues]
    /\ nodesIn = Idle /\ edgesIn = Idle /\ G = EmptyGraph
    /\ weights = Idle /\ op = "init" /\ out = Idle
    /\ sim = Idle /\ threshold = Idle
    /\ cluster = Idle /\ reply = Idle
    /\ bfs = Idle /\ use_llm = Idle
    /\ NoCascadeCall
    /\ NoFiles

Normalize ==
    /\ op = "init"
    /\ out' = _normalize(scoresIn)
    /\ op' = "_normalize"
    /\ UNCHANGED <<G, weights>>
    /\ UnchangedInputs

NextNorm == Normalize

SpecNorm == InitNorm /\ [][NextNorm]_vars

-----------------------------------------------------------------------------
(* graph/dedup.py: find_duplicate_clusters *)

\* mutant: strictly above the threshold
IsSimilarStrict(sm, i, j, th) == sm[<<i, j>>] > th

\* sim[i, j] >= threshold
IsSimilar(sm, i, j, th) == sm[<<i, j>>] >= th

\* [j for j in range(n) if j != i and sim[i, j] >= threshold]
SimilarTo(sm, n, i, th) ==
    SelectSeq([k \in 1..n |-> k - 1], LAMBDA j : j # i /\ IsSimilar(sm, i, j, th))

\* `for i in range(n)` from index i on
RECURSIVE ClusterLoop(_, _, _, _, _, _)
ClusterLoop(sm, n, th, i, visited, clusters) ==
    IF i >= n THEN clusters
    ELSE IF i \in visited THEN ClusterLoop(sm, n, th, i + 1, visited, clusters)
    ELSE LET similar == SimilarTo(sm, n, i, th)
             cl == <<i>> \o similar
         IN  IF similar # << >>
             THEN ClusterLoop(sm, n, th, i + 1, visited \cup Range(cl),
                              Append(clusters, cl))
             ELSE ClusterLoop(sm, n, th, i + 1, visited, clusters)

\* clusters of indices 0..n-1 into the node list
find_duplicate_clusters(sm, n, th) == ClusterLoop(sm, n, th, 0, {}, << >>)

-----------------------------------------------------------------------------
(* graph/dedup.py: simple_merge *)

\* max(nodes_in_cluster, key=lambda n: n.confidence): the first of the highest
BaseIndex(nodes) ==
    CHOOSE i \in DOMAIN nodes :
        /\ \A j \in DOMAIN nodes : RLeq(nodes[j].confidence, nodes[i].confidence)
        /\ \A j \in 1..(i - 1) : RLess(nodes[j].confidence, nodes[i].confidence)

SourceIds(srcs) == {srcs[k].source_id : k \in DOMAIN srcs}

\* mutant: the loop over a member's sources stops after the first one it adds
RECURSIVE AppendFirstNew(_, _)
AppendFirstNew(acc, srcs) ==
    IF srcs = << >> THEN acc
    ELSE IF Head(srcs).source_id \in SourceIds(acc)
    THEN AppendFirstNew(acc, Tail(srcs))
    ELSE Append(acc, Head(srcs))

\* for src in node.sources: append it unless its source_id was seen
RECURSIVE AppendNew(_, _)
AppendNew(acc, srcs) ==
    IF srcs = << >> THEN acc
    ELSE IF Head(srcs).source_id \in SourceIds(acc)
    THEN AppendNew(acc, Tail(srcs))
    ELSE AppendNew(Append(acc, Head(srcs)), Tail(srcs))

\* for node in nodes_in_cluster: skip the base (by node_id), merge the others
RECURSIVE MergeLoop(_, _, _)
MergeLoop(nodes, base_id, acc) ==
    IF nodes = << >> THEN acc
    ELSE IF Head(nodes).node_id = base_id THEN MergeLoop(Tail(nodes), base_id, acc)
    ELSE MergeLoop(Tail(nodes), base_id, AppendNew(acc, Head(nodes).sources))

\* merged: the returned node.  cluster: the nodes given, after the call;
\* base.model_copy() is shallow, so merged.sources is the base's own list.
simple_merge(nodes) ==
    LET b == BaseIndex(nodes)
        srcs == MergeLoop(nodes, nodes[b].node_id, nodes[b].sources)
        top == RMaxSeq([i \in DOMAIN nodes |-> nodes[i].confidence])
    IN  [merged |-> [nodes[b] EXCEPT !.sources = srcs, !.confidence = top],
         cluster |-> [nodes EXCEPT ![b].sources = srcs]]

-----------------------------------------------------------------------------
(* graph/dedup.py: llm_disambiguate_cluster *)

TitleSliceLen == 200

\* s[:200]
Slice(s) == SubSeq(s, 1, IF Len(s) < TitleSliceLen THEN Len(s) ELSE TitleSliceLen)

\* str.upper() on the decisions an oracle reply may hold
Upper(d) ==
    CASE d = "merge" -> "MERGE"
      [] d = "hierarchy" -> "HIERARCHY"
      [] d = "distinct" -> "DISTINCT"
      [] OTHER -> d

\* result.get("decision", "DISTINCT").upper(); a decision that is no string
\* has no upper()
DecisionOf(r) ==
    IF r.decision = "<absent>" THEN Upper("DISTINCT")
    ELSE IF r.decision = "<not a string>" THEN "<AttributeError>"
    ELSE Upper(r.decision)

Resolved(decision, nodes, after) ==
    [status |-> "ok", decision |-> decision, nodes |-> nodes, cluster |-> after]

\* the MERGE branch; a canonical_title that cannot be sliced raises TypeError,
\* which the enclosing except turns into DISTINCT
MergeBranch(nodes, r) ==
    LET m == simple_merge(nodes)
    IN  IF r.title_kind \in {"null", "number"}
        THEN Resolved("DISTINCT", m.cluster, m.cluster)
        ELSE LET t == IF r.title_kind = "absent" THEN Slice(m.merged.title)
                      ELSE Slice(r.title)
             IN  Resolved("MERGE", <<[m.merged EXCEPT !.title = t]>>, m.cluster)

\* the HIERARCHY branch: parent_id is set on a copy of each child, the
\* child's id is appended to the parent's own children_ids
HierarchyBranch(nodes) ==
    LET after == [nodes EXCEPT ![1].children_ids =
                     @ \o [i \in 1..(Len(nodes) - 1) |-> nodes[i + 1].node_id]]
    IN  Resolved("HIERARCHY", after, after)

llm_disambiguate_cluster(nodes, r) ==
    IF r.kind = "no_api_key"
    THEN [status |-> "raised", error |-> "KeyError", cluster |-> nodes]
    ELSE IF r.kind \in {"raises", "no_json", "bad_json"}
    THEN Resolved("DISTINCT", nodes, nodes)
    ELSE LET decision == DecisionOf(r)
         IN  IF decision = "<AttributeError>" THEN Resolved("DISTINCT", nodes, nodes)
             ELSE IF decision = "MERGE" THEN MergeBranch(nodes, r)
             ELSE IF decision = "HIERARCHY" /\ Len(nodes) >= 2 THEN HierarchyBranch(nodes)
             ELSE Resolved("DISTINCT", nodes, nodes)

-----------------------------------------------------------------------------
(* Specification of find_duplicate_clusters *)

\* number of candidate nodes
MaxDedupNodes == 4

\* similarities and thresholds in hundredths: 0.85 is the default threshold
SimValues == {80, 90}

ThresholdChoices == {85, 90}

IndexPairs(n) == (0..(n - 1)) \X (0..(n - 1))

UpperPairs(n) == {p \in IndexPairs(n) : p[1] < p[2]}

\* normed @ normed.T is symmetric, with 1.0 on the diagonal
SymmetricSim(n, u) ==
    [p \in IndexPairs(n) |->
        IF p[1] = p[2] THEN 100
        ELSE IF p[1] < p[2] THEN u[p] ELSE u[<<p[2], p[1]>>]]

InitCluster ==
    /\ \E n \in 0..MaxDedupNodes :
         \E u \in [UpperPairs(n) -> SimValues] : sim = [n |-> n, m |-> SymmetricSim(n, u)]
    /\ threshold \in ThresholdChoices
    /\ nodesIn = Idle /\ edgesIn = Idle /\ G = EmptyGraph
    /\ weights = Idle /\ op = "init" /\ out = Idle
    /\ scoresIn = Idle /\ cluster = Idle /\ reply = Idle
    /\ bfs = Idle /\ use_llm = Idle
    /\ NoCascadeCall
    /\ NoFiles

FindClusters ==
    /\ op = "init"
    /\ out' = find_duplicate_clusters(sim.m, sim.n, threshold)
    /\ op' = "find_duplicate_clusters"
    /\ UNCHANGED <<G, weights>>
    /\ UnchangedInputs

NextCluster == FindClusters

SpecCluster == InitCluster /\ [][NextCluster]_vars

-----------------------------------------------------------------------------
(* Specification of simple_merge and llm_disambiguate_cluster *)

\* number of nodes in a cluster (a cluster has a seed and at least one other)
MaxCluster == 3

ClusterNodeIds == <<"A", "B", "C", "D">>

ClusterConfidences == {Half, [n |-> 9, d |-> 10]}

ClusterSourceIds == {<< >>, <<"s1">>, <<"s2">>, <<"s1", "s2">>}

\* node i of a cluster: its sources are SourceRef objects of its own
ClusterNode(i, id, conf, sids) ==
    MkNode(id, <<id>>, <<TagX1>>, conf,
           [k \in DOMAIN sids |-> [source_id |-> sids[k], evidence_quote |-> i]])

\* the ids of a cluster of n nodes: all distinct, or the last equal to the first
ClusterIds(n) ==
    {SubSeq(ClusterNodeIds, 1, n),
     [i \in 1..n |-> IF i = n THEN ClusterNodeIds[1] ELSE ClusterNodeIds[i]]}

JsonReply(decision, title_kind, title) ==
    [kind |-> "json", decision |-> decision, title_kind |-> title_kind, title |-> title]

NoReply(kind) ==
    [kind |-> kind, decision |-> "<absent>", title_kind |-> "absent", title |-> << >>]

Replies ==
    {NoReply(k) : k \in {"no_api_key", "raises", "no_json", "bad_json"}} \cup
    {JsonReply(d, "absent", << >>) :
        d \in {"<absent>", "<not a string>", "HIERARCHY", "DISTINCT", "distinct", "MAYBE"}} \cup
    {JsonReply(d, "str", <<"T">>) : d \in {"MERGE", "merge"}} \cup
    {JsonReply("MERGE", k, << >>) : k \in {"absent", "null", "number"}} \cup
    {JsonReply("MERGE", "list", <<"T", "U">>)}

InitMerge ==
    /\ \E n \in 2..MaxCluster :
         \E ids \in ClusterIds(n) :
           \E cs \in [1..n -> ClusterConfidences] :
             \E ss \in [1..n -> ClusterSourceIds] :
               cluster = [i \in 1..n |-> ClusterNode(i, ids[i], cs[i], ss[i])]
    /\ nodesIn = Idle /\ edgesIn = Idle /\ G = EmptyGraph
    /\ weights = Idle /\ op = "init" /\ out = Idle
    /\ scoresIn = Idle /\ sim = Idle /\ threshold = Idle
    /\ reply = Idle
    /\ bfs = Idle /\ use_llm = Idle
    /\ NoCascadeCall
    /\ NoFiles

\* `cluster` keeps the nodes as they were passed; out.cluster is the same
\* objects after the call
SimpleMerge ==
    /\ op = "init"
    /\ out' = simple_merge(cluster)
    /\ op' = "simple_merge"
    /\ UNCHANGED <<G, weights>>
    /\ UnchangedInputs

Disambiguate ==
    /\ op = "init"
    /\ \E r \in Replies :
         /\ reply' = r
         /\ out' = llm_disambiguate_cluster(cluster, r)
    /\ op' = "llm_disambiguate_cluster"
    /\ UNCHANGED <<G, weights, nodesIn, edgesIn, scoresIn, sim, threshold, cluster,
                   params, loop, prev, lines, edgeLines,
                bfs, use_llm>>

NextMerge == SimpleMerge \/ Disambiguate

SpecMerge == InitMerge /\ [][NextMerge]_vars

-----------------------------------------------------------------------------
(* graph/dedup.py: dedup_nodes.  The result list holds node objects: input  *)
(* nodes themselves, or copies made by simple_merge, whose sources and      *)
(* children_ids are still the lists of the node they were copied from       *)

\* {i for cluster in clusters for i in cluster}
ClusterIndices(clusters) == UNION {Range(clusters[k]) : k \in DOMAIN clusters}

\* the input node nodes[at] itself
InputRef(at) == [kind |-> "input", at |-> at, node |-> << >>]

\* a shallow copy of nodes[at]
CopyRef(node, at) == [kind |-> "copy", at |-> at, node |-> node]

\* the node a reference stands for once all calls have returned
Deref(ref, nodes) ==
    IF ref.kind = "input" THEN nodes[ref.at + 1]
    ELSE [ref.node EXCEPT !.sources = nodes[ref.at + 1].sources,
                          !.children_ids = nodes[ref.at + 1].children_ids]

\* mutant: every input node is kept, clustered or not
KeepAll(n, clusters) == [k \in 1..n |-> InputRef(k - 1)]

\* [n for i, n in enumerate(nodes) if i not in cluster_indices]
PassedThrough(n, clusters) ==
    LET kept == SelectSeq([k \in 1..n |-> k - 1],
                          LAMBDA i : i \notin ClusterIndices(clusters))
    IN  [k \in DOMAIN kept |-> InputRef(kept[k])]

\* the nodes after a call on the cluster cl left its members as `members`
WriteBack(nodes, cl, members) ==
    [i \in DOMAIN nodes |->
        IF (i - 1) \in Range(cl) THEN members[IndexOf(cl, i - 1)] ELSE nodes[i]]

\* `for cluster in clusters` from cluster k on;
\* st = [status, error, nodes (the input objects), result]
RECURSIVE ResolveLoop(_, _, _, _, _)
ResolveLoop(clusters, k, with_llm, replies, st) ==
    IF k > Len(clusters) \/ st.status # "ok" THEN st
    ELSE LET cl == clusters[k]
             cluster_nodes == [p \in DOMAIN cl |-> st.nodes[cl[p] + 1]]
             base == cl[BaseIndex(cluster_nodes)]
         IN  IF with_llm
             THEN LET r == llm_disambiguate_cluster(cluster_nodes, replies[k])
                  IN  IF r.status = "raised"
                      THEN [st EXCEPT !.status = "raised", !.error = r.error]
                      ELSE ResolveLoop(clusters, k + 1, with_llm, replies,
                             [st EXCEPT
                                !.nodes = WriteBack(@, cl, r.cluster),
                                !.result = @ \o
                                   (IF r.decision = "MERGE"
                                    THEN <<CopyRef(r.nodes[1], base)>>
                                    ELSE [p \in DOMAIN cl |-> InputRef(cl[p])])])
             ELSE LET m == simple_merge(cluster_nodes)
                  IN  ResolveLoop(clusters, k + 1, with_llm, replies,
                         [st EXCEPT !.nodes = WriteBack(@, cl, m.cluster),
                                    !.result = Append(@, CopyRef(m.merged, base))])

\* nodes: the returned list.  inputs: the nodes given, after the call
dedup_nodes(nodes, sm, th, with_llm, replies) ==
    LET clusters == find_duplicate_clusters(sm, Len(nodes), th)
        st == ResolveLoop(clusters, 1, with_llm, replies,
                          [status |-> "ok", error |-> "",
                           nodes |-> nodes,
                           result |-> PassedThrough(Len(nodes), clusters)])
    IN  IF Len(nodes) < 2 \/ clusters = << >>
        THEN [status |-> "ok", nodes |-> nodes, inputs |-> nodes]
        ELSE IF st.status = "raised"
        THEN [status |-> "raised", error |-> st.error, inputs |-> st.nodes]
        ELSE [status |-> "ok",
              nodes |-> [i \in DOMAIN st.result |-> Deref(st.result[i], st.nodes)],
              inputs |-> st.nodes]

-----------------------------------------------------------------------------
(* Specification of dedup_nodes *)

\* number of nodes given to dedup_nodes
MaxDedupInput == 3

Nine == [n |-> 9, d |-> 10]

\* confidences of n nodes: all equal, the first the highest, the last the
\* highest, the first the lowest
ConfidenceProfiles(n) ==
    {[i \in 1..n |-> Half],
     [i \in 1..n |-> IF i = 1 THEN Nine ELSE Half],
     [i \in 1..n |-> IF i = n THEN Nine ELSE Half],
     [i \in 1..n |-> IF i = 1 THEN Half ELSE Nine]}

SourceNames == <<"s1", "s2", "s3", "s4">>

\* source ids of n nodes: none, one source shared by all, one source each
SourceProfiles(n) ==
    {[i \in 1..n |-> << >>],
     [i \in 1..n |-> <<SourceNames[1]>>],
     [i \in 1..n |-> <<SourceNames[i]>>]}

\* what the oracle call produces for one cluster
DedupReplies ==
    {JsonReply("MERGE", "str", <<"T">>), JsonReply("MERGE", "null", << >>),
     JsonReply("DISTINCT", "absent", << >>), JsonReply("HIERARCHY", "absent", << >>),
     NoReply("no_api_key")}

InitDedup ==
    /\ \E n \in 0..MaxDedupInput :
         /\ \E u \in [UpperPairs(n) -> SimValues] : sim = [n |-> n, m |-> SymmetricSim(n, u)]
         /\ \E ids \in IF n = 0 THEN {<< >>} ELSE ClusterIds(n) :
              \E cs \in ConfidenceProfiles(n) :
                \E ss \in SourceProfiles(n) :
                  nodesIn = [i \in 1..n |-> ClusterNode(i, ids[i], cs[i], ss[i])]
    /\ threshold \in ThresholdChoices
    /\ use_llm \in BOOLEAN
    /\ edgesIn = Idle /\ G = EmptyGraph
    /\ weights = Idle /\ op = "init" /\ out = Idle
    /\ scoresIn = Idle /\ cluster = Idle /\ reply = Idle /\ bfs = Idle
    /\ NoCascadeCall
    /\ NoFiles

\* dedup_nodes(nodes, threshold, use_llm); reply holds what the oracle call
\* produces for each cluster in turn
DedupNodes ==
    /\ op = "init"
    /\ LET k == IF use_llm
                THEN Len(find_duplicate_clusters(sim.m, Len(nodesIn), threshold))
                ELSE 0
       IN  \E rs \in [1..k -> DedupReplies] :
             /\ reply' = rs
             /\ out' = dedup_nodes(nodesIn, sim.m, threshold, use_llm, rs)
    /\ op' = "dedup_nodes"
    /\ UNCHANGED <<G, weights, nodesIn, edgesIn, scoresIn, sim, threshold, cluster,
                   params, loop, prev, lines, edgeLines, bfs, use_llm>>

NextDedup == DedupNodes

SpecDedup == InitDedup /\ [][NextDedup]_vars

-----------------------------------------------------------------------------
(* proto/06_mini_pipeline.py: steps 4 and 5 of the pipeline *)

\* threshold=0.85, in hundredths
PipelineThreshold == 85

\* deduplicate(nodes); the fast merge raises nothing, so the except clause
\* that returns the input is not reached
deduplicate(nodes, sm) ==
    IF nodes = << >> THEN << >>
    ELSE dedup_nodes(nodes, sm, PipelineThreshold, FALSE, << >>).nodes

\* `ranked = compute_leverage_index(G)` under `except Exception: ranked = []`
RankedOrEmpty(r) == IF r.status = "ok" THEN r.ranking ELSE << >>

\* build_and_score(nodes, edges): G is None when there are no nodes (here the
\* empty graph), ranked is [] when scoring raised
build_and_score(nodes, edges) ==
    IF nodes = << >>
    THEN [G |-> EmptyGraph, stats |-> << >>, ranked |-> << >>]
    ELSE LET g == build_graph(nodes, edges)
         IN  [G |-> g, stats |-> graph_stats(g),
              ranked |-> RankedOrEmpty(compute_leverage_index(g, NoWeights))]

-----------------------------------------------------------------------------
(* Specification of the pipeline: deduplicate, then build_and_score on the  *)
(* edges as they were extracted                                             *)

\* edges extracted
MaxPipelineEdges == 1

PipelineEdge(i, pair) == MkEdge(i, "ENABLES", pair[1], pair[2], Half, FourFifths)

InitPipeline ==
    /\ \E n \in 0..MaxDedupInput :
         /\ \E u \in [UpperPairs(n) -> SimValues] : sim = [n |-> n, m |-> SymmetricSim(n, u)]
         /\ \E cs \in ConfidenceProfiles(n) :
              nodesIn = [i \in 1..n |->
                            ClusterNode(i, ClusterNodeIds[i], cs[i], <<SourceNames[i]>>)]
         /\ \E ps \in SeqsUpTo(Range(SubSeq(ClusterNodeIds, 1, n))
                                  \X Range(SubSeq(ClusterNodeIds, 1, n)),
                               MaxPipelineEdges) :
              edgesIn = [i \in DOMAIN ps |-> PipelineEdge(i, ps[i])]
    /\ Acyclic(_enables_subgraph(build_graph(nodesIn, edgesIn)))
    /\ threshold = PipelineThreshold
    /\ use_llm = FALSE
    /\ G = EmptyGraph
    /\ weights = Idle /\ op = "init" /\ out = Idle
    /\ scoresIn = Idle /\ cluster = Idle /\ reply = Idle /\ bfs = Idle
    /\ NoCascadeCall
    /\ NoFiles

UnchangedByPipeline ==
    UNCHANGED <<nodesIn, edgesIn, weights, scoresIn, sim, threshold, cluster, reply,
                params, loop, prev, lines, edgeLines, bfs, use_llm>>

\* nodes = deduplicate(nodes)
Deduplicate ==
    /\ op = "init"
    /\ out' = [nodes |-> deduplicate(nodesIn, sim.m), stats |-> << >>, ranked |-> << >>]
    /\ op' = "deduplicate"
    /\ UNCHANGED G
    /\ UnchangedByPipeline

\* G, ranked = build_and_score(nodes, edges)
BuildAndScore ==
    /\ op = "deduplicate"
    /\ \E r \in {build_and_score(out.nodes, edgesIn)} :
         /\ G' = r.G
         /\ out' = [nodes |-> out.nodes, stats |-> r.stats, ranked |-> r.ranked]
    /\ op' = "build_and_score"
    /\ UnchangedByPipeline

NextPipeline == Deduplicate \/ BuildAndScore

SpecPipeline == InitPipeline /\ [][NextPipeline]_vars

-----------------------------------------------------------------------------
(* models.py: construction of a Node / an Edge from candidate values;       *)
(* extract/nodes.py, extract/edges.py, graph/builder.py: the per-record     *)
(* loops that construct them                                                *)

TitleLimit == 200

TitleKept == 197

StubSliceLen == 200

StubConfidence == Half

NodeTypes ==
    {"open_problem", "capability_gap", "data_gap", "infrastructure_gap",
     "theoretical_gap", "engineering_bottleneck"}

EdgeTypes == {"ENABLES", "PRODUCES_FOR"}

\* Node.model_post_init: self.title[:197] + "..." when len(self.title) > 200
model_post_init(title) ==
    IF Len(title) > TitleLimit THEN SubSeq(title, 1, TitleKept) \o <<".", ".", ".">>
    ELSE title

\* Node(type=..., title=..., confidence=...): pydantic checks the Literal and
\* that title is a str, puts no bound on confidence, then model_post_init runs
Node(id, type, title_kind, title, confidence) ==
    IF type \notin NodeTypes \/ title_kind # "str" THEN Raised("ValidationError")
    ELSE [status |-> "ok",
          node |-> MkNode(id, model_post_init(title), <<TagX1>>, confidence, << >>)]

\* Edge(type=..., strength=..., confidence=...): the Literal is checked, the
\* two floats are not bounded
Edge(id, type, src, tgt, strength, confidence) ==
    IF type \notin EdgeTypes THEN Raised("ValidationError")
    ELSE [status |-> "ok", edge |-> MkEdge(id, type, src, tgt, strength, confidence)]

\* the body of `try:` in extract_nodes_from_text for one raw record
NodeOfRaw(raw, id) ==
    IF raw.shape # "dict" THEN Raised("TypeError")               \* raw["type"]
    ELSE IF raw.type = "<absent>" \/ raw.title_kind = "absent" THEN Raised("KeyError")
    ELSE IF raw.conf_kind = "text" THEN Raised("ValueError")     \* float(...)
    ELSE Node(id, raw.type, raw.title_kind, raw.title,
              IF raw.conf_kind = "absent" THEN DefaultConfidence ELSE raw.confidence)

\* `for raw in raw_nodes` from record i on; the handler evaluates
\* raw.get('title', '?'), which raises when raw is no dict
RECURSIVE ExtractLoop(_, _, _, _)
ExtractLoop(raw_nodes, ids, i, nodes) ==
    IF i > Len(raw_nodes) THEN [status |-> "ok", nodes |-> nodes]
    ELSE LET r == NodeOfRaw(raw_nodes[i], ids[i])
         IN  IF r.status = "ok"
             THEN ExtractLoop(raw_nodes, ids, i + 1, Append(nodes, r.node))
             ELSE IF raw_nodes[i].shape # "dict"
             THEN [status |-> "raised", error |-> "AttributeError", nodes |-> nodes]
             ELSE ExtractLoop(raw_nodes, ids, i + 1, nodes)

extract_nodes_from_text(raw_nodes, ids) == ExtractLoop(raw_nodes, ids, 1, << >>)

\* Node.model_validate_json(line)
NodeOfLine(line, id) ==
    IF line.shape # "dict" THEN Raised("ValidationError")
    ELSE IF line.type = "<absent>" \/ line.title_kind = "absent" \/ line.conf_kind = "text"
    THEN Raised("ValidationError")
    ELSE Node(id, line.type, line.title_kind, line.title,
              IF line.conf_kind = "absent" THEN DefaultConfidence ELSE line.confidence)

\* `for line in f` of load_nodes_jsonl from line i on
RECURSIVE LoadNodesLoop(_, _, _, _)
LoadNodesLoop(ls, ids, i, nodes) ==
    IF i > Len(ls) THEN nodes
    ELSE IF ls[i].shape = "blank" THEN LoadNodesLoop(ls, ids, i + 1, nodes)
    ELSE LET r == NodeOfLine(ls[i], ids[i])
         IN  IF r.status = "ok"
             THEN LoadNodesLoop(ls, ids, i + 1, Append(nodes, r.node))
             ELSE LoadNodesLoop(ls, ids, i + 1, nodes)

load_nodes_jsonl(ls, ids) == LoadNodesLoop(ls, ids, 1, << >>)

\* Edge.model_validate_json(line)
EdgeOfLine(line, id) ==
    IF line.shape # "dict" THEN Raised("ValidationError")
    ELSE Edge(id, line.type, line.src, line.tgt, line.strength, line.confidence)

\* `for line in f` of load_edges_jsonl from line i on
RECURSIVE LoadEdgesLoop(_, _, _)
LoadEdgesLoop(ls, i, edges) ==
    IF i > Len(ls) THEN edges
    ELSE IF ls[i].shape = "blank" THEN LoadEdgesLoop(ls, i + 1, edges)
    ELSE LET r == EdgeOfLine(ls[i], i)
         IN  IF r.status = "ok"
             THEN LoadEdgesLoop(ls, i + 1, Append(edges, r.edge))
             ELSE LoadEdgesLoop(ls, i + 1, edges)

load_edges_jsonl(ls) == LoadEdgesLoop(ls, 1, << >>)

\* title[:200]
StubTitle(title) ==
    SubSeq(title, 1, IF Len(title) < StubSliceLen THEN Len(title) ELSE StubSliceLen)

\* Node(type="capability_gap", title=title[:200], confidence=0.5, ...)
_make_stub(title, id) == Node(id, "capability_gap", "str", StubTitle(title), StubConfidence)

-----------------------------------------------------------------------------
(* Specification of the record loops: a nodes file and an edges file are    *)
(* loaded and the graph is built from them; or the same records are the     *)
(* raw_nodes of an extraction; or a stub is made for a title                *)

\* lines of a file / raw records of an extraction
MaxLines == 2

RecordIds == <<"r1", "r2", "r3", "r4">>

TitleOfLen(n) == [i \in 1..n |-> "t"]

ThreeHalves == [n |-> 3, d |-> 2]

MinusHalf == [n |-> -1, d |-> 2]

NodeRecord(type, title_kind, title, conf_kind, confidence) ==
    [shape |-> "dict", type |-> type, title_kind |-> title_kind, title |-> title,
     conf_kind |-> conf_kind, confidence |-> confidence]

\* a line that is blank, holds no JSON, or holds a JSON string
NoRecord(shape) ==
    [shape |-> shape, type |-> "<absent>", title_kind |-> "absent", title |-> << >>,
     conf_kind |-> "absent", confidence |-> Zero]

NodeLineChoices ==
    {NodeRecord("open_problem", "str", TitleOfLen(1), "number", DefaultConfidence),
     NodeRecord("data_gap", "str", TitleOfLen(TitleLimit), "number", One),
     NodeRecord("open_problem", "str", TitleOfLen(TitleLimit + 1), "absent", Zero),
     NodeRecord("open_problem", "str", TitleOfLen(2), "number", ThreeHalves),
     NodeRecord("open_problem", "str", TitleOfLen(2), "number", MinusHalf),
     NodeRecord("open_problem", "str", TitleOfLen(2), "text", Zero),
     NodeRecord("open_problem", "absent", << >>, "number", One),
     NodeRecord("open_problem", "number", << >>, "number", One),
     NodeRecord("solved_problem", "str", TitleOfLen(2), "number", One),
     NodeRecord("<absent>", "str", TitleOfLen(2), "number", One),
     NoRecord("str"), NoRecord("bad_json"), NoRecord("blank")}

EdgeRecord(shape, type, strength, confidence) ==
    [shape |-> shape, type |-> type, src |-> RecordIds[1], tgt |-> RecordIds[2],
     strength |-> strength, confidence |-> confidence]

EdgeLineChoices ==
    {EdgeRecord("dict", "ENABLES", One, FourFifths),
     EdgeRecord("dict", "PRODUCES_FOR", ThreeHalves, One),
     EdgeRecord("dict", "ENABLES", Half, MinusHalf),
     EdgeRecord("dict", "REQUIRES", One, One),
     EdgeRecord("bad_json", "ENABLES", One, One),
     EdgeRecord("blank", "ENABLES", One, One)}

\* a nodes file with two good lines, for the edges to connect
TwoGoodLines ==
    <<NodeRecord("open_problem", "str", TitleOfLen(1), "number", DefaultConfidence),
      NodeRecord("data_gap", "str", TitleOfLen(2), "number", One)>>

InitRecords ==
    /\ \/ /\ lines \in SeqsUpTo(NodeLineChoices, MaxLines)
          /\ edgeLines = << >>
       \/ /\ lines = TwoGoodLines
          /\ edgeLines \in SeqsUpTo(EdgeLineChoices, MaxLines)
    /\ nodesIn = << >> /\ edgesIn = << >> /\ G = EmptyGraph
    /\ weights = Idle /\ op = "init" /\ out = Idle
    /\ scoresIn = Idle /\ sim = Idle /\ threshold = Idle
    /\ cluster = Idle /\ reply = Idle
    /\ bfs = Idle /\ use_llm = Idle
    /\ NoCascadeCall

UnchangedByRecords ==
    UNCHANGED <<weights, scoresIn, sim, threshold, cluster, reply, params, loop,
                prev, lines, edgeLines,
                bfs, use_llm>>

LoadNodes ==
    /\ op = "init"
    /\ nodesIn' = load_nodes_jsonl(lines, RecordIds)
    /\ out' = [status |-> "ok"]
    /\ op' = "load_nodes_jsonl"
    /\ UNCHANGED <<edgesIn, G>>
    /\ UnchangedByRecords

LoadEdges ==
    /\ op = "load_nodes_jsonl"
    /\ edgesIn' = load_edges_jsonl(edgeLines)
    /\ out' = [status |-> "ok"]
    /\ op' = "load_edges_jsonl"
    /\ UNCHANGED <<nodesIn, G>>
    /\ UnchangedByRecords

BuildLoaded ==
    /\ op = "load_edges_jsonl"
    /\ G' = build_graph(nodesIn, edgesIn)
    /\ out' = [status |-> "ok"]
    /\ op' = "build_graph"
    /\ UNCHANGED <<nodesIn, edgesIn>>
    /\ UnchangedByRecords

\* raw_nodes comes out of a parsed tool input: every record is a JSON value
ExtractNodes ==
    /\ op = "init"
    /\ \A i \in DOMAIN lines : lines[i].shape \in {"dict", "str"}
    /\ out' = extract_nodes_from_text(lines, RecordIds)
    /\ nodesIn' = IF out'.status = "ok" THEN out'.nodes ELSE nodesIn
    /\ op' = "extract_nodes_from_text"
    /\ UNCHANGED <<edgesIn, G>>
    /\ UnchangedByRecords

\* a stub for the title of one of the records
MakeStub ==
    /\ op = "init"
    /\ \E i \in DOMAIN lines :
         /\ lines[i].title_kind = "str"
         /\ out' = _make_stub(lines[i].title, RecordIds[i])
    /\ nodesIn' = <<out'.node>>
    /\ op' = "_make_stub"
    /\ UNCHANGED <<edgesIn, G>>
    /\ UnchangedByRecords

NextRecords == LoadNodes \/ LoadEdges \/ BuildLoaded \/ ExtractNodes \/ MakeStub

SpecRecords == InitRecords /\ [][NextRecords]_vars

-----------------------------------------------------------------------------
(* Claims about build_graph (SpecBuild) *)

InputNodeIds == {nodesIn[i].node_id : i \in DOMAIN nodesIn}

MissingEndpoint(edge) ==
    edge.source_node_id \notin InputNodeIds \/ edge.target_node_id \notin InputNodeIds

SelfLoop(edge) == edge.source_node_id = edge.target_node_id

GraphEdgeIds == {G.edges[i].edge_id : i \in DOMAIN G.edges}

\* C1: the built graph has every edge's endpoints among its nodes, no
\* self-loop and at most as many edges as the input; an input edge with a
\* missing endpoint or with source = target is dropped, and build_graph
\* returns without raising.
C1_ReferentialIntegrity ==
    op = "build_graph" =>
        /\ out.status = "ok"
        /\ Range(G.nodes) = InputNodeIds
        /\ \A i \in DOMAIN G.edges :
              /\ G.edges[i].u \in Range(G.nodes)
              /\ G.edges[i].v \in Range(G.nodes)
              /\ G.edges[i].u # G.edges[i].v
        /\ Len(G.edges) <= Len(edgesIn)
        /\ \A i \in DOMAIN edgesIn :
              (MissingEndpoint(edgesIn[i]) \/ SelfLoop(edgesIn[i]))
                  => edgesIn[i].edge_id \notin GraphEdgeIds

\* an edge to a missing node and a self-loop on a known node were dropped,
\* another edge was kept
C1_Witness ==
    /\ op = "build_graph"
    /\ \E i \in DOMAIN edgesIn : MissingEndpoint(edgesIn[i])
    /\ \E i \in DOMAIN edgesIn : SelfLoop(edgesIn[i]) /\ ~MissingEndpoint(edgesIn[i])
    /\ Len(G.edges) = 1

\* both endpoints exist and differ
ValidEdge(edge) == ~MissingEndpoint(edge) /\ ~SelfLoop(edge)

\* the graph holds `edge` with its own id, type, strength and confidence
Represented(edge) ==
    \E i \in DOMAIN G.edges :
        /\ G.edges[i].u = edge.source_node_id
        /\ G.edges[i].v = edge.target_node_id
        /\ G.edges[i].edge_id = edge.edge_id
        /\ G.edges[i].type = edge.type
        /\ G.edges[i].strength = edge.strength
        /\ G.edges[i].confidence = edge.confidence

\* C13: build_graph only filters edges: every input edge whose two endpoints
\* exist and differ is in the built graph with its own edge_id, type,
\* strength and confidence, and the graph has as many edges as there are
\* such input edges, also when several input edges share an ordered
\* endpoint pair.
C13_EdgesOnlyFiltered ==
    op = "build_graph" =>
        /\ \A i \in DOMAIN edgesIn : ValidEdge(edgesIn[i]) => Represented(edgesIn[i])
        /\ Len(G.edges) = Cardinality({i \in DOMAIN edgesIn : ValidEdge(edgesIn[i])})

-----------------------------------------------------------------------------
(* Claims about the record loops (SpecRecords) *)

\* the record a node was made from
RecordOf(node) == lines[IndexOf(RecordIds, node.node_id)]

EndsWithEllipsis(title) ==
    /\ Len(title) >= 3
    /\ SubSeq(title, Len(title) - 2, Len(title)) = <<".", ".", ".">>

\* a record that parses and validates
ValidNodeRecord(r) ==
    /\ r.shape = "dict"
    /\ r.type \in NodeTypes
    /\ r.title_kind = "str"
    /\ r.conf_kind # "text"

ValidEdgeRecord(r) == r.shape = "dict" /\ r.type \in EdgeTypes

\* the positions of s that satisfy Test, in order
Positions(s, Test(_)) == SelectSeq([i \in DOMAIN s |-> i], LAMBDA i : Test(s[i]))

InUnitInterval(x) == RLeq(Zero, x) /\ RLeq(x, One)

\* C16: every node title has at most 200 characters after any operation that
\* creates a node (construction from a candidate record, JSONL load, stub
\* creation); a title of more than 200 characters is never rejected and is
\* replaced by a truncated title that ends with an ellipsis.
C16_TitleTruncated ==
    op \in {"load_nodes_jsonl", "extract_nodes_from_text", "_make_stub"} =>
        /\ \A k \in DOMAIN nodesIn :
              /\ Len(nodesIn[k].title) <= TitleLimit
              /\ Len(RecordOf(nodesIn[k]).title) > TitleLimit
                    => EndsWithEllipsis(nodesIn[k].title)
        /\ (op # "_make_stub" /\ out.status = "ok") =>
              \A i \in DOMAIN lines :
                  (ValidNodeRecord(lines[i]) /\ Len(lines[i].title) > TitleLimit)
                      => \E k \in DOMAIN nodesIn : nodesIn[k].node_id = RecordIds[i]

\* C17: every Node.confidence, Edge.strength and Edge.confidence lies in
\* [0,1] in every reachable state: a value outside [0,1] in a candidate
\* record or a JSONL line never becomes a field of a Node or Edge and never
\* reaches the built graph.
C17_UnitInterval ==
    /\ \A k \in DOMAIN nodesIn : InUnitInterval(nodesIn[k].confidence)
    /\ \A k \in DOMAIN edgesIn :
          InUnitInterval(edgesIn[k].strength) /\ InUnitInterval(edgesIn[k].confidence)
    /\ \A k \in DOMAIN G.attrs : InUnitInterval(G.attrs[k].confidence)
    /\ \A k \in DOMAIN G.edges :
          InUnitInterval(G.edges[k].strength) /\ InUnitInterval(G.edges[k].confidence)

\* C19: load_nodes_jsonl and load_edges_jsonl return exactly the records of
\* the non-blank lines that validate, in file order, and skip every other
\* line; extract_nodes_from_text does the same per raw record and never
\* fails because of an individual bad record.
C19_BadRecordsSkipped ==
    /\ op \in {"load_nodes_jsonl", "extract_nodes_from_text"} =>
          /\ out.status = "ok"
          /\ [k \in DOMAIN nodesIn |-> nodesIn[k].node_id]
                = [k \in DOMAIN Positions(lines, ValidNodeRecord) |->
                      RecordIds[Positions(lines, ValidNodeRecord)[k]]]
    /\ op = "load_edges_jsonl" =>
          /\ out.status = "ok"
          /\ [k \in DOMAIN edgesIn |-> edgesIn[k].edge_id]
                = Positions(edgeLines, ValidEdgeRecord)

-----------------------------------------------------------------------------
(* Claims about find_duplicate_clusters (SpecCluster) *)

\* sim(a,b) >= threshold, sim(a,c) >= threshold, sim(b,c) < threshold
Chained(a, b, c) ==
    /\ a # b /\ a # c /\ b # c
    /\ sim.m[<<a, b>>] >= threshold
    /\ sim.m[<<a, c>>] >= threshold
    /\ sim.m[<<b, c>>] < threshold

InOneCluster(a, b, c) == \E k \in DOMAIN out : {a, b, c} \subseteq Range(out[k])

\* no cluster seeded earlier in the list holds a
SeededAt(a) == \A k \in DOMAIN out : out[k][1] < a => a \notin Range(out[k])

\* C5 as stated: for any three nodes A, B, C at any positions with
\* sim(A,B) >= threshold, sim(A,C) >= threshold and sim(B,C) < threshold,
\* one returned cluster contains all three.
C5_ChainingAnyPosition ==
    op = "find_duplicate_clusters" =>
        \A a, b, c \in 0..(sim.n - 1) : Chained(a, b, c) => InOneCluster(a, b, c)

\* C5 amended: the same, provided A is a seed, that is, no cluster seeded at
\* a node earlier in the list than A contains A.
C5_ChainingFromSeed ==
    op = "find_duplicate_clusters" =>
        \A a, b, c \in 0..(sim.n - 1) :
            (Chained(a, b, c) /\ SeededAt(a)) => InOneCluster(a, b, c)

\* A is a seed that is not first in the list and comes after B
C5_Witness ==
    /\ op = "find_duplicate_clusters"
    /\ \E a, b, c \in 0..(sim.n - 1) :
          /\ Chained(a, b, c)
          /\ SeededAt(a)
          /\ b < a
          /\ InOneCluster(a, b, c)

-----------------------------------------------------------------------------
(* Claims about simple_merge and llm_disambiguate_cluster (SpecMerge) *)

DistinctIds(nodes) ==
    \A i, j \in DOMAIN nodes : i # j => nodes[i].node_id # nodes[j].node_id

\* C6: for a cluster with pairwise distinct node ids, the node returned by
\* simple_merge carries every source id of every cluster member and its
\* confidence is the maximum confidence over the members.
C6_MergeProvenance ==
    (op = "simple_merge" /\ DistinctIds(cluster)) =>
        /\ \A i \in DOMAIN cluster :
              \A k \in DOMAIN cluster[i].sources :
                  \E m \in DOMAIN out.merged.sources :
                      out.merged.sources[m].source_id = cluster[i].sources[k].source_id
        /\ \A i \in DOMAIN cluster : RLeq(cluster[i].confidence, out.merged.confidence)
        /\ \E i \in DOMAIN cluster : out.merged.confidence = cluster[i].confidence

\* three nodes, the base is not the first, and the merged node carries a
\* source id that the base did not have
C6_Witness ==
    /\ op = "simple_merge"
    /\ DistinctIds(cluster)
    /\ Len(cluster) = 3
    /\ RLess(cluster[1].confidence, out.merged.confidence)
    /\ out.merged.node_id # cluster[1].node_id
    /\ \E m \in DOMAIN out.merged.sources :
          \A i \in DOMAIN cluster :
              cluster[i].node_id = out.merged.node_id =>
                  \A k \in DOMAIN cluster[i].sources :
                      cluster[i].sources[k].source_id # out.merged.sources[m].source_id

\* the oracle failed or its reply is malformed: the call raised, no JSON
\* object, JSON that does not parse, a decision that is missing, no string or
\* none of the three, or a MERGE whose canonical_title is no string
Malformed(r) ==
    \/ r.kind \in {"raises", "no_json", "bad_json"}
    \/ /\ r.kind = "json"
       /\ \/ r.decision \in {"<absent>", "<not a string>"}
          \/ Upper(r.decision) \notin {"MERGE", "HIERARCHY", "DISTINCT"}
          \/ Upper(r.decision) = "MERGE" /\ r.title_kind \in {"null", "number", "list"}

\* C7: whenever the oracle fails or answers malformed output,
\* llm_disambiguate_cluster returns DISTINCT with as many nodes as the
\* cluster had, never MERGE or a collapsed node list.
C7_FailureIsDistinct ==
    (op = "llm_disambiguate_cluster" /\ Malformed(reply)) =>
        /\ out.status = "ok"
        /\ out.decision = "DISTINCT"
        /\ Len(out.nodes) = Len(cluster)

\* C14: when the oracle answers HIERARCHY for a cluster of two or more
\* nodes, llm_disambiguate_cluster returns all cluster nodes; in them the
\* first member's children_ids holds the id of every other member, and every
\* other member's parent_id is the first member's node id.
C14_HierarchyLinks ==
    (/\ op = "llm_disambiguate_cluster"
     /\ reply.kind = "json"
     /\ reply.decision = "HIERARCHY"
     /\ Len(cluster) >= 2) =>
        /\ out.status = "ok"
        /\ out.decision = "HIERARCHY"
        /\ Len(out.nodes) = Len(cluster)
        /\ \A i \in DOMAIN cluster : out.nodes[i].node_id = cluster[i].node_id
        /\ \A i \in 2..Len(out.nodes) :
              /\ Contains(out.nodes[1].children_ids, out.nodes[i].node_id)
              /\ out.nodes[i].parent_id = out.nodes[1].node_id

-----------------------------------------------------------------------------
(* Claims about the scorers (SpecScore) *)

\* A["x.1"] -> B["x.1"] (ENABLES, 1.0, 1.0), B -> C["y.1"] (ENABLES, 0.5, 0.8)
ScenarioGraph ==
    build_graph(NodeList(3, <<<<TagX1>>, <<TagX1>>, <<TagY1>>>>),
                <<MkEdge(1, "ENABLES", "A", "B", One, One),
                  MkEdge(2, "ENABLES", "B", "C", Half, FourFifths)>>)

\* C2 as stated: in the end-to-end scenario the raw cascade scores are
\* ordered B > A > C with C = 0.
C2_CascadeOrderBAC ==
    (op = "compute_cascade_scores" /\ G = ScenarioGraph) =>
        /\ out.status = "ok"
        /\ RLess(out.scores["A"], out.scores["B"])
        /\ RLess(out.scores["C"], out.scores["A"])
        /\ out.scores["C"] = Zero

\* C2 amended: in the end-to-end scenario the raw cascade scores are ordered
\* A > B > C with C = 0 (A = 1.34, B = 0.4): A enables B, which enables C.
C2_CascadeOrderABC ==
    (op = "compute_cascade_scores" /\ G = ScenarioGraph) =>
        /\ out.status = "ok"
        /\ out.scores["A"] = [n |-> 67, d |-> 50]
        /\ out.scores["B"] = [n |-> 2, d |-> 5]
        /\ RLess(out.scores["B"], out.scores["A"])
        /\ RLess(out.scores["C"], out.scores["B"])
        /\ out.scores["C"] = Zero

C2_Witness ==
    /\ op = "compute_cascade_scores"
    /\ G = ScenarioGraph
    /\ out.status = "ok"
    /\ out.converged

\* C3 as stated: in the end-to-end scenario with the default weights the
\* first entry of the ranking is B, with the strictly highest composite.
C3_RankingFirstB ==
    (op = "compute_leverage_index" /\ G = ScenarioGraph /\ ~weights.given) =>
        /\ out.status = "ok"
        /\ out.ranking[1].node_id = "B"
        /\ \A i \in 2..Len(out.ranking) :
              RLess(out.ranking[i].score, out.ranking[1].score)

\* C3 amended: in the end-to-end scenario with the default weights the first
\* entry of the ranking is A (composite 0.75), which has the strictly highest
\* composite; B is second and C, with composite 0, is last.
C3_RankingFirstA ==
    (op = "compute_leverage_index" /\ G = ScenarioGraph /\ ~weights.given) =>
        /\ out.status = "ok"
        /\ Len(out.ranking) = 3
        /\ out.ranking[1].node_id = "A"
        /\ out.ranking[1].score = [n |-> 3, d |-> 4]
        /\ out.ranking[2].node_id = "B"
        /\ out.ranking[3].node_id = "C"
        /\ out.ranking[3].score = Zero
        /\ \A i \in 2..Len(out.ranking) :
              RLess(out.ranking[i].score, out.ranking[1].score)

C3_Witness ==
    /\ op = "compute_leverage_index"
    /\ G = ScenarioGraph
    /\ ~weights.given
    /\ out.status = "ok"
    /\ Len(out.ranking) = 3

\* C4: in the end-to-end scenario compute_cross_field_leverage returns 0.4
\* for A (domain y reached through B with weight 1.0*1.0*0.5*0.8), 0.4 for B
\* and 0.0 for C.
C4_CrossFieldScenario ==
    (op = "compute_cross_field_leverage" /\ G = ScenarioGraph) =>
        /\ out.status = "ok"
        /\ out.scores["A"] = RMul(RMul(RMul(One, One), Half), FourFifths)
        /\ out.scores["A"] = [n |-> 2, d |-> 5]
        /\ out.scores["B"] = [n |-> 2, d |-> 5]
        /\ out.scores["C"] = Zero

C4_Witness ==
    /\ op = "compute_cross_field_leverage"
    /\ G = ScenarioGraph
    /\ out.status = "ok"
    /\ DOMAIN out.scores = {"A", "B", "C"}

WeightSum(w) == RAdd(RAdd(w.cascade, w.cross_field), w.bottleneck)

\* C8: compute_leverage_index rejects weights whose three values do not sum
\* to 1.0: no ranking is produced from them.
C8_WeightsValidated ==
    (op = "compute_leverage_index" /\ weights.given /\ WeightSum(weights) # One) =>
        out.status # "ok"

NoSubgraphEdges == \A i \in DOMAIN G.edges : G.edges[i].type \notin SubgraphTypes

\* C9: on a graph whose ENABLES/PRODUCES_FOR subgraph has no edges, with any
\* number of nodes (zero included), the three scorers return 0.0 for every
\* node without raising, and compute_leverage_index returns normally.
C9_DegenerateAllZero ==
    (op # "init" /\ NoSubgraphEdges) =>
        /\ out.status = "ok"
        /\ op \in {"compute_cascade_scores", "compute_cross_field_leverage",
                   "compute_bottleneck_centrality"} =>
              /\ DOMAIN out.scores = Range(G.nodes)
              /\ \A n \in Range(G.nodes) : out.scores[n] = Zero

RankedIds == [i \in DOMAIN out.ranking |-> out.ranking[i].node_id]

\* C12: the list returned by compute_leverage_index holds every node of the
\* graph exactly once, in order of non-increasing composite score, and nodes
\* of equal composite score appear in the order in which the graph
\* enumerates its nodes.
C12_RankingOrder ==
    (op = "compute_leverage_index" /\ out.status = "ok") =>
        /\ Len(out.ranking) = Len(G.nodes)
        /\ Range(RankedIds) = Range(G.nodes)
        /\ \A i, j \in DOMAIN out.ranking :
              i < j =>
                 /\ RankedIds[i] # RankedIds[j]
                 /\ RLeq(out.ranking[j].score, out.ranking[i].score)
                 /\ out.ranking[i].score = out.ranking[j].score =>
                        IndexOf(G.nodes, RankedIds[i]) < IndexOf(G.nodes, RankedIds[j])

\* three nodes: the first of the graph ranks last, the other two tie with a
\* positive score
C12_Witness ==
    /\ op = "compute_leverage_index"
    /\ out.status = "ok"
    /\ Len(out.ranking) = 3
    /\ out.ranking[3].node_id = G.nodes[1]
    /\ out.ranking[1].score = out.ranking[2].score
    /\ RLess(Zero, out.ranking[1].score)
    /\ RLess(out.ranking[3].score, out.ranking[2].score)

-----------------------------------------------------------------------------
(* Claims about the cascade iteration (SpecCascade) *)

SubgraphEdgesOf(g) == {e \in Range(g.edges) : e.type \in SubgraphTypes}

\* sum over the subgraph edges (n -> v) of strength * confidence * imp[v]
EdgeSum(g, imp, n) ==
    LET es == {e \in SubgraphEdgesOf(g) : e.u = n}
    IN  SumValues([e \in es |-> RMul(RMul(e.strength, e.confidence), imp[e.v])])

\* raw_k of the claims: raw_0 = 0, raw_k from importance_(k-1) = 1 + damping * raw_(k-1)
RECURSIVE RawVector(_, _, _)
RawVector(g, damping, k) ==
    IF k = 0 THEN [n \in Range(g.nodes) |-> Zero]
    ELSE LET before == RawVector(g, damping, k - 1)
             imp == [n \in Range(g.nodes) |-> RAdd(One, RMul(damping, before[n]))]
         IN  [n \in Range(g.nodes) |-> EdgeSum(g, imp, n)]

\* max over nodes of |raw_k[n] - raw_(k-1)[n]|, k >= 1, at least one node
DeltaOfRound(g, damping, k) ==
    LET a == RawVector(g, damping, k)
        b == RawVector(g, damping, k - 1)
    IN  RMaxSet({RAbs(RSub(a[n], b[n])) : n \in Range(g.nodes)})

\* C11: on a graph with at least one node, cyclic or not,
\* compute_cascade_scores performs at most max_iterations rounds, stops after
\* the first round whose delta is below the tolerance, and returns the raw
\* vector of the last round it performed; reaching max_iterations without
\* convergence is not an error.
C11_CascadeTermination ==
    /\ (op \in {"for_iteration", "compute_cascade_scores"})
          => loop.iteration <= params.max_iterations
    /\ (op = "compute_cascade_scores" /\ Len(G.nodes) >= 1) =>
          /\ out.status = "ok"
          /\ out.rounds <= params.max_iterations
          /\ out.scores = RawVector(G, params.damping, out.rounds)
          /\ \A k \in 1..(out.rounds - 1) :
                ~RLess(DeltaOfRound(G, params.damping, k), params.tolerance)
          /\ out.rounds < params.max_iterations =>
                /\ out.rounds >= 1
                /\ RLess(DeltaOfRound(G, params.damping, out.rounds), params.tolerance)

\* on a graph with a cycle, a call that performed max_iterations rounds, two
\* or more, none of them with a delta below the tolerance
C11_Witness ==
    /\ op = "compute_cascade_scores"
    /\ ~Acyclic(_enables_subgraph(G))
    /\ out.status = "ok"
    /\ out.rounds = params.max_iterations
    /\ out.rounds >= 2
    /\ ~RLess(DeltaOfRound(G, params.damping, out.rounds), params.tolerance)

C20_SynchronousRounds ==
    [][(op = "for_iteration" /\ loop'.iteration = loop.iteration + 1) =>
          /\ loop.iteration = 0 => \A n \in Range(G.nodes) : loop.importance[n] = One
          /\ \A n \in Range(G.nodes) :
                /\ loop'.scores[n] = EdgeSum(G, loop.importance, n)
                /\ loop'.importance[n] = RAdd(One, RMul(params.damping, loop'.scores[n]))]_vars

\* after two rounds on a graph with a cycle: a node whose raw score rests on
\* an importance above 1.0
C20_Witness ==
    /\ op = "for_iteration"
    /\ loop.iteration = 2
    /\ ~Acyclic(_enables_subgraph(G))
    /\ \E e \in SubgraphEdgesOf(G) :
          /\ RLess(One, loop.importance[e.v])
          /\ RLess(RMul(e.strength, e.confidence), loop.scores[e.u])

\* the number of edges of the longest path of subgraph edges that starts at
\* n (the subgraph is acyclic)
RECURSIVE PathLength(_, _)
PathLength(g, n) ==
    LET es == {e \in SubgraphEdgesOf(g) : e.u = n}
    IN  IF es = {} THEN 0
        ELSE 1 + (CHOOSE m \in {PathLength(g, e.v) : e \in es} :
                      \A k \in {PathLength(g, e.v) : e \in es} : k <= m)

\* L: the longest path of the subgraph, in edges (a graph with a node has one)
LongestPath(g) ==
    CHOOSE m \in {PathLength(g, n) : n \in Range(g.nodes)} :
        \A k \in {PathLength(g, n) : n \in Range(g.nodes)} : k <= m

\* max(L, 1)
SettledRound(g) == IF LongestPath(g) > 1 THEN LongestPath(g) ELSE 1

\* C30: on a graph whose ENABLES / PRODUCES_FOR subgraph is acyclic with a
\* longest path of L edges, the raw vector is the same in every round from
\* round max(L, 1) on, so every later round has delta = 0, and a call with
\* max_iterations >= L + 1 detects convergence after at most L + 1 rounds,
\* whatever the damping and the edge weights
C30_AcyclicConvergence ==
    (Len(G.nodes) >= 1 /\ Acyclic(_enables_subgraph(G))) =>
        /\ (op \in {"for_iteration", "compute_cascade_scores"}
                /\ loop.iteration >= SettledRound(G)) =>
              /\ loop.scores = RawVector(G, params.damping, SettledRound(G))
              /\ loop.iteration > SettledRound(G) => loop.delta = Zero
        /\ (op = "compute_cascade_scores"
                /\ params.max_iterations >= LongestPath(G) + 1) =>
              /\ out.status = "ok"
              /\ out.converged
              /\ out.rounds <= LongestPath(G) + 1

\* a call on a path of two edges that detected convergence in round 3, the
\* delta of round 2 being above the tolerance
C30_Witness ==
    /\ op = "compute_cascade_scores"
    /\ Len(G.nodes) >= 1
    /\ Acyclic(_enables_subgraph(G))
    /\ LongestPath(G) = 2
    /\ out.status = "ok"
    /\ out.converged
    /\ out.rounds = 3
    /\ loop.delta = Zero
    /\ ~RLess(DeltaOfRound(G, params.damping, 2), params.tolerance)

-----------------------------------------------------------------------------
(* Claims about compute_cross_field_leverage (SpecCrossField) *)

\* the nodes other than n that n reaches over ENABLES / PRODUCES_FOR edges
Reaches(g, n) ==
    LET first == {e.v : e \in {x \in SubgraphEdgesOf(g) : x.u = n}}
    IN  ReachableFrom(SelectSeq(g.edges, KeepEdge), first) \ {n}

OwnDomains(g, n) == DomainsOf(NodeAttrs(g, n).fields)

OnCycle(g, n) ==
    LET es == SubgraphEdgesOf(g)
    IN  \E e \in es : e.v = n /\ e.u \in Reaches(g, n)

\* C15: a node with no outgoing ENABLES/PRODUCES_FOR edge, and a node all
\* of whose reachable nodes carry only domains the node itself carries,
\* gets a cross-field score of exactly 0.0, on every graph, graphs with a
\* cycle back to the node included.
C15_CrossFieldZero ==
    op = "compute_cross_field_leverage" =>
        /\ out.status = "ok"
        /\ DOMAIN out.scores = Range(G.nodes)
        /\ \A n \in Range(G.nodes) :
              (\A m \in Reaches(G, n) : OwnDomains(G, m) \subseteq OwnDomains(G, n))
                  => out.scores[n] = Zero

\* a node on a cycle that reaches a node of its own domain under another
\* tag and scores 0.0, in a graph where another node scores above 0.0
C15_Witness ==
    /\ op = "compute_cross_field_leverage"
    /\ \E n \in Range(G.nodes) :
          /\ OnCycle(G, n)
          /\ \E m \in Reaches(G, n) : NodeAttrs(G, m).fields # NodeAttrs(G, n).fields
          /\ \A m \in Reaches(G, n) : OwnDomains(G, m) \subseteq OwnDomains(G, n)
          /\ out.scores[n] = Zero
    /\ \E n \in Range(G.nodes) : RLess(Zero, out.scores[n])

-----------------------------------------------------------------------------
(* Claims about _normalize (SpecNorm) *)

\* C10: for a nonempty score map _normalize returns a map over the same keys
\* with minimum 0.0, maximum 1.0 and every value in [0,1], except that when
\* all inputs are equal every output is 0.0; it never divides by zero.
C10_Normalize ==
    (op = "_normalize" /\ DOMAIN scoresIn # {}) =>
        /\ DOMAIN out = DOMAIN scoresIn
        /\ \A k \in DOMAIN out : out[k].d > 0
        /\ IF \A j, k \in DOMAIN scoresIn : scoresIn[j] = scoresIn[k]
           THEN \A k \in DOMAIN out : out[k] = Zero
           ELSE /\ \E k \in DOMAIN out : out[k] = Zero
                /\ \E k \in DOMAIN out : out[k] = One
                /\ \A k \in DOMAIN out : out[k].n >= 0 /\ out[k].n <= out[k].d

\* three distinct inputs: one maps to 0, one to 1, one strictly between
C10_Witness ==
    /\ op = "_normalize"
    /\ Cardinality(DOMAIN scoresIn) = 3
    /\ \E k \in DOMAIN out : out[k].n > 0 /\ out[k].n < out[k].d
    /\ \E k \in DOMAIN out : scoresIn[k].n < 0 /\ out[k] = Zero

-----------------------------------------------------------------------------
(* Claims about the traversal of compute_cross_field_leverage *)

\* the position at which node n entered the queue (0: it never did)
EnqueuedAt(n) ==
    IF \E i \in DOMAIN bfs.enqueued : bfs.enqueued[i].node = n
    THEN CHOOSE i \in DOMAIN bfs.enqueued : bfs.enqueued[i].node = n
    ELSE 0

\* the visited nodes other than the origin, as positions of bfs.enqueued
Discovered == 2..Len(bfs.enqueued)

CarriedDomains(k) == DomainsOf(NodeAttrs(G, bfs.enqueued[k].node).fields)

\* the domains outside the origin's own that a visited node carries
ForeignDomains == UNION {CarriedDomains(k) : k \in Discovered} \ bfs.start_domains

\* the largest first-discovery weight among the visited nodes carrying d
LargestFirstWeight(d) ==
    RMaxSet({bfs.enqueued[k].weight : k \in {j \in Discovered : d \in CarriedDomains(j)}})

\* the weight a path through edge e would give its target
WeightThrough(e) ==
    RMul(RMul(bfs.enqueued[EnqueuedAt(e.u)].weight, e.strength), e.confidence)

\* C21: in the traversal from one origin every node enters the queue at most
\* once and the origin never again; a node's weight is the product of
\* strength * confidence along the path on which it was first discovered (its
\* discoverer is the earliest enqueued node with an edge to it); an edge to an
\* already visited node, even a heavier one, changes nothing, so
\* reachable_domains holds, for every domain outside the origin's own, the
\* largest first-discovery weight among the visited nodes carrying it, and the
\* origin's score is the sum of these
C21_FirstDiscovery ==
    op \in {"while_queue", "compute_cross_field_leverage"} =>
        LET enq == bfs.enqueued
            sub == _enables_subgraph(G)
        IN  /\ \A i, j \in DOMAIN enq : enq[i].node = enq[j].node => i = j
            /\ enq[1] = [node |-> bfs.start, weight |-> One, from |-> bfs.start]
            /\ bfs.visited = {enq[i].node : i \in DOMAIN enq}
            /\ \A k \in Discovered :
                 LET p == EnqueuedAt(enq[k].from)
                 IN  /\ p \in 1..(k - 1)
                     /\ \E e \in Range(sub.edges) :
                          /\ e.u = enq[k].from /\ e.v = enq[k].node
                          /\ enq[k].weight = WeightThrough(e)
                     /\ \A e \in Range(sub.edges) :
                          (e.v = enq[k].node /\ EnqueuedAt(e.u) # 0)
                              => EnqueuedAt(e.u) >= p
            /\ DOMAIN bfs.reachable_domains = ForeignDomains
            /\ \A d \in ForeignDomains :
                 bfs.reachable_domains[d] = LargestFirstWeight(d)
            /\ op = "compute_cross_field_leverage" =>
                 out.score = SumValues([d \in ForeignDomains |-> LargestFirstWeight(d)])

\* a traversal has ended in which a visited node carrying a foreign domain
\* also has a heavier path, one that would have raised reachable_domains
C21_Witness ==
    /\ op = "compute_cross_field_leverage"
    /\ \E k \in Discovered :
         \E e \in Range(_enables_subgraph(G).edges) :
           /\ e.v = bfs.enqueued[k].node
           /\ EnqueuedAt(e.u) # 0
           /\ \E d \in CarriedDomains(k) \ bfs.start_domains :
                RLess(bfs.reachable_domains[d], WeightThrough(e))

-----------------------------------------------------------------------------
(* Claims about dedup_nodes *)

\* the clusters dedup_nodes works on
ClustersFound == find_duplicate_clusters(sim.m, Len(nodesIn), threshold)

\* the indices of the input nodes in no cluster, in input order
Unclustered ==
    SelectSeq([k \in 1..Len(nodesIn) |-> k - 1],
              LAMBDA i : \A c \in DOMAIN ClustersFound : i \notin Range(ClustersFound[c]))

\* node m stands for the cluster cl: it is the member of highest confidence,
\* and it has every source id of every member whose node id is not its own
MergedOf(m, cl) ==
    /\ \E p \in DOMAIN cl :
         /\ m.node_id = nodesIn[cl[p] + 1].node_id
         /\ m.title = nodesIn[cl[p] + 1].title
         /\ \A q \in DOMAIN cl :
              RLeq(nodesIn[cl[q] + 1].confidence, nodesIn[cl[p] + 1].confidence)
         /\ m.confidence = nodesIn[cl[p] + 1].confidence
    /\ \A q \in DOMAIN cl :
         nodesIn[cl[q] + 1].node_id # m.node_id
             => SourceIds(nodesIn[cl[q] + 1].sources) \subseteq SourceIds(m.sources)

\* C22: with the fast merge, dedup_nodes returns every input node that is in
\* no cluster exactly once and unchanged, followed by exactly one merged node
\* per cluster; the output has (input nodes in no cluster) + (clusters) nodes
C22_FastMergeOutput ==
    (op = "dedup_nodes" /\ ~use_llm) =>
        /\ out.status = "ok"
        /\ Len(out.nodes) = Len(Unclustered) + Len(ClustersFound)
        /\ \A k \in DOMAIN Unclustered :
             /\ out.nodes[k] = nodesIn[Unclustered[k] + 1]
             /\ out.inputs[Unclustered[k] + 1] = nodesIn[Unclustered[k] + 1]
        /\ \A c \in DOMAIN ClustersFound :
             MergedOf(out.nodes[Len(Unclustered) + c], ClustersFound[c])
        /\ \A i \in 0..(Len(nodesIn) - 1) :
             \/ \E k \in DOMAIN Unclustered : Unclustered[k] = i
             \/ \E c \in DOMAIN ClustersFound : i \in Range(ClustersFound[c])

\* a fast merge of three nodes, two of them in a cluster and one in none
C22_Witness ==
    /\ op = "dedup_nodes" /\ ~use_llm
    /\ Len(ClustersFound) = 1
    /\ Len(Unclustered) = 1
    /\ Len(out.nodes) = 2

\* C27: when the input node ids are pairwise distinct, the ids of the nodes
\* dedup_nodes returns (fast merge or arbitration, whatever the oracle
\* answers) are pairwise distinct, and the output never has more nodes than
\* the input
C27_DistinctIdsNoGrowth ==
    (op = "dedup_nodes" /\ out.status = "ok" /\ DistinctIds(nodesIn)) =>
        /\ DistinctIds(out.nodes)
        /\ Len(out.nodes) <= Len(nodesIn)

-----------------------------------------------------------------------------
(* Further claims about find_duplicate_clusters, simple_merge and           *)
(* llm_disambiguate_cluster                                                 *)

\* C26: the clusters find_duplicate_clusters returns are pairwise disjoint: no
\* index is in two clusters, and none occurs twice in one cluster
C26_ClustersDisjoint ==
    op = "find_duplicate_clusters" =>
        /\ \A c, d \in DOMAIN out : c # d => Range(out[c]) \cap Range(out[d]) = {}
        /\ \A c \in DOMAIN out :
             \A p, q \in DOMAIN out[c] : out[c][p] = out[c][q] => p = q

\* C28: simple_merge does not modify the nodes it is given: after the call
\* every member of the cluster, the base included, has the sources and the
\* confidence it had before
C28_MergeLeavesInputs ==
    op = "simple_merge" =>
        \A i \in DOMAIN cluster :
            /\ out.cluster[i].sources = cluster[i].sources
            /\ out.cluster[i].confidence = cluster[i].confidence

\* C23: whenever llm_disambiguate_cluster returns DISTINCT (the oracle chose
\* it, or a failed or malformed reply fell back to it), the nodes returned
\* are the nodes of the input cluster, every field as it was before the call
C23_DistinctReturnsInputs ==
    (op = "llm_disambiguate_cluster" /\ out.status = "ok"
        /\ out.decision = "DISTINCT") =>
        out.nodes = cluster

-----------------------------------------------------------------------------
(* Claims about graph_stats *)

DomainsAt(nid) == DomainsOf(NodeAttrs(G, nid).fields)

\* C24 as stated: cross_field_edges is the number of graph edges (u, v) for
\* which the domains of u and the domains of v have no common element, for
\* all field lists, empty ones included
C24_CrossFieldEdges ==
    op = "graph_stats" =>
        out.cross_field_edges =
            Cardinality({i \in DOMAIN G.edges :
                            DomainsAt(G.edges[i].u) \cap DomainsAt(G.edges[i].v) = {}})

\* C24 amended: cross_field_edges is the number of graph edges (u, v) for
\* which u and v each carry at least one domain and carry none in common
C24_CrossFieldEdgesTagged ==
    op = "graph_stats" =>
        out.cross_field_edges =
            Cardinality({i \in DOMAIN G.edges :
                            /\ DomainsAt(G.edges[i].u) # {}
                            /\ DomainsAt(G.edges[i].v) # {}
                            /\ DomainsAt(G.edges[i].u) \cap DomainsAt(G.edges[i].v) = {}})

\* statistics of a graph with one edge between two domains and one edge at a
\* node without tags
C24_Witness ==
    /\ op = "graph_stats"
    /\ out.edges = 2
    /\ out.cross_field_edges = 1
    /\ \E i \in DOMAIN G.edges :
         DomainsAt(G.edges[i].u) = {} \/ DomainsAt(G.edges[i].v) = {}

-----------------------------------------------------------------------------
(* Claims about the scorers run one after another *)

\* the graph as it was given to the first scorer
GivenGraph == build_graph(nodesIn, edgesIn)

\* C25: whichever scorers have run, in any order and any number of times, the
\* graph they were given has the node set, the edge set and every attribute
\* it had (no edge has a btwn_weight), so the result of the scorer that ran
\* last is its result on the graph as given
C25_ScorersLeaveGraph ==
    /\ G = GivenGraph
    /\ \A i \in DOMAIN G.edges : "btwn_weight" \notin DOMAIN G.edges[i]
    /\ op # "init" => out = ResultOf(op, GivenGraph)

\* a scorer has run after compute_bottleneck_centrality set btwn_weight on
\* the edges of the subgraph it built
C25_Witness ==
    /\ Len(prev) = 2
    /\ prev[1] \in {"compute_bottleneck_centrality", "compute_leverage_index"}
    /\ \E i \in DOMAIN G.edges : KeepEdge(G.edges[i])
    /\ "btwn_weight" \in DOMAIN BottleneckFrame(G).sub.edges[1]

-----------------------------------------------------------------------------
(* Claims about the pipeline *)

\* the ids of the nodes deduplicate returned
DedupedIds == {out.nodes[i].node_id : i \in DOMAIN out.nodes}

\* input node i is in a cluster and is the base of none of its clusters
MergedAway(i) ==
    /\ \E c \in DOMAIN ClustersFound : i \in Range(ClustersFound[c])
    /\ \A c \in DOMAIN ClustersFound :
         LET cl == ClustersFound[c]
         IN  cl[BaseIndex([p \in DOMAIN cl |-> nodesIn[cl[p] + 1]])] # i

\* C29: after deduplicate (fast merge) and build_graph on the edges as
\* extracted, an input edge with distinct endpoints is an edge of the graph
\* exactly when both its endpoint ids are ids of nodes deduplicate returned,
\* and the graph has no other edges: no edge is re-pointed to the node that
\* stands for a merged cluster, so an edge at a cluster member that is the
\* base of none of its clusters is absent
C29_EdgesNotRepointed ==
    op = "build_and_score" =>
        /\ \A i \in DOMAIN edgesIn :
             edgesIn[i].source_node_id # edgesIn[i].target_node_id =>
                 (HasEdge(G, edgesIn[i].source_node_id, edgesIn[i].target_node_id)
                    <=> /\ edgesIn[i].source_node_id \in DedupedIds
                        /\ edgesIn[i].target_node_id \in DedupedIds)
        /\ \A k \in DOMAIN G.edges :
             \E i \in DOMAIN edgesIn :
                 /\ edgesIn[i].source_node_id = G.edges[k].u
                 /\ edgesIn[i].target_node_id = G.edges[k].v
                 /\ edgesIn[i].edge_id = G.edges[k].edge_id
        /\ \A i \in 0..(Len(nodesIn) - 1) :
             MergedAway(i) =>
                 \A k \in DOMAIN G.edges :
                     /\ G.edges[k].u # nodesIn[i + 1].node_id
                     /\ G.edges[k].v # nodesIn[i + 1].node_id

\* the graph was built after a cluster was merged, and an input edge between
\* a merged-away member and a node that was kept is not in it
C29_Witness ==
    /\ op = "build_and_score"
    /\ \E i \in DOMAIN edgesIn :
         \E m \in 0..(Len(nodesIn) - 1) :
           /\ MergedAway(m)
           /\ edgesIn[i].source_node_id = nodesIn[m + 1].node_id
           /\ edgesIn[i].target_node_id \in DedupedIds
           /\ ~HasEdge(G, edgesIn[i].source_node_id, edgesIn[i].target_node_id)

====
